---- MODULE Spec2Model ----
(***************************************************************************)
(* ZKP login of AIhubAPI: controller/zkp.go (ZkpOAuth, setupZkpLogin) and  *)
(* service/zkp.go (ParseZkpCode, VerifyProof, GetHashStatus, IsZkpValid,   *)
(* CheckClubMembership, IsClubMember, getEthClient, getABIs).              *)
(*                                                                         *)
(* Text is a sequence of one-character strings; the four invisible         *)
(* characters U+200B, U+200C, U+200D and U+FEFF are the tokens "ZWSP",     *)
(* "ZWNJ", "ZWJ" and "BOM".  A big.Int is a record [neg, mag] whose mag is *)
(* the sequence of decimal digits, least significant first, without        *)
(* leading zeros (zero is the empty sequence).                             *)
(***************************************************************************)
EXTENDS Integers, Sequences, FiniteSets, TLC

----------------------------------------------------------------------------
(* math/big as used by service/zkp.go *)

Invisible == {"ZWSP", "ZWNJ", "ZWJ", "BOM"}

WhiteSpace == {" ", "\t", "\n"}

DecDigits == <<"0", "1", "2", "3", "4", "5", "6", "7", "8", "9">>

\* the digit value nat.scan gives a character; 99 stands for MaxBase + 1
DigitVal(ch) ==
  CASE ch = "0" -> 0 [] ch = "1" -> 1 [] ch = "2" -> 2 [] ch = "3" -> 3
    [] ch = "4" -> 4 [] ch = "5" -> 5 [] ch = "6" -> 6 [] ch = "7" -> 7
    [] ch = "8" -> 8 [] ch = "9" -> 9
    [] ch \in {"a", "A"} -> 10 [] ch \in {"b", "B"} -> 11
    [] ch \in {"c", "C"} -> 12 [] ch \in {"d", "D"} -> 13
    [] ch \in {"e", "E"} -> 14 [] ch \in {"f", "F"} -> 15
    [] ch \in {"o", "O"} -> 24 [] ch \in {"x", "X"} -> 33
    [] ch \in {"z", "Z"} -> 35
    [] OTHER -> 99

Reverse(s) == [i \in 1..Len(s) |-> s[Len(s) + 1 - i]]

RECURSIVE MulAddCarry(_, _, _)
MulAddCarry(mag, b, c) ==
  IF mag = <<>>
    THEN IF c = 0 THEN <<>> ELSE <<c % 10>> \o MulAddCarry(<<>>, b, c \div 10)
    ELSE LET v == Head(mag) * b + c
         IN  <<v % 10>> \o MulAddCarry(Tail(mag), b, v \div 10)

\* mag * b + c on least-significant-first decimal digits (0 <= c < b); in
\* base ten the product is a shift and no carry arises
MulAdd(mag, b, c) ==
  IF b = 10 THEN (IF mag = <<>> /\ c = 0 THEN <<>> ELSE <<c>> \o mag)
  ELSE MulAddCarry(mag, b, c)

RECURSIVE DigitsValue(_, _, _)
\* the digits ds read in base b, most significant first, onto mag
DigitsValue(ds, b, mag) ==
  IF ds = <<>> THEN mag
  ELSE DigitsValue(Tail(ds), b, MulAdd(mag, b, Head(ds)))

IsDigitChar(ch) == ch # "_"

DigitVals(digits) == [i \in 1..Len(digits) |-> DigitVal(digits[i])]

\* the least element of a non-empty set of numbers
Least(S) == CHOOSE i \in S : \A j \in S : i <= j

\* nat.scan, where the conversion loop stops: the index of the first
\* character that is neither a digit of base b nor (sepOk) a separator,
\* Len(s) + 1 when there is none
ScanStop(s, b, sepOk) ==
  Least({i \in 1..Len(s) : ~(sepOk /\ s[i] = "_") /\ DigitVal(s[i]) >= b}
          \cup {Len(s) + 1})

\* nat.scan, the variable prev after the i-th character of read
ScanPrev(read, i, prev0) ==
  IF i = 0 THEN prev0 ELSE IF read[i] = "_" THEN "_" ELSE "0"

\* nat.scan, the conversion loop over the characters read, from the count
\* and prev the prefix left: [mag, count, prev, invalSep]; a separator is
\* valid only after a digit
ScanDigits(read, b, count0, prev0) ==
  [mag      |-> IF b = 10 THEN Reverse(DigitVals(SelectSeq(read, IsDigitChar)))
                ELSE DigitsValue(DigitVals(SelectSeq(read, IsDigitChar)), b,
                                 <<>>),
   count    |-> count0 + Len(SelectSeq(read, IsDigitChar)),
   prev     |-> ScanPrev(read, Len(read), prev0),
   invalSep |-> \E i \in 1..Len(read) :
                  read[i] = "_" /\ ScanPrev(read, i - 1, prev0) # "0"]

\* nat.scan with base 0: the prefix met, "none" when the text does not
\* start with 0 or is the single character 0
NatPrefix(s, base) ==
  IF base # 0 \/ Len(s) < 2 THEN "none"
  ELSE IF s[1] # "0" THEN "none"
  ELSE IF s[2] \in {"b", "B"} THEN "b"
  ELSE IF s[2] \in {"o", "O"} THEN "o"
  ELSE IF s[2] \in {"x", "X"} THEN "x"
  ELSE "0"

\* nat.scan: the actual base
NatBase(base, prefix) ==
  IF base # 0 THEN base
  ELSE CASE prefix = "b" -> 2 [] prefix = "o" -> 8 [] prefix = "x" -> 16
         [] prefix = "0" -> 8 [] OTHER -> 10

\* nat.scan with base 0 and 0 as the first character: that character is
\* read before the loop, and counts as a digit unless a prefix follows
NatLead0(s, base) == base = 0 /\ Len(s) >= 1 /\ s[1] = "0"

\* nat.scan: the characters the conversion loop starts on
NatBody(s, base, prefix) ==
  CASE prefix \in {"b", "o", "x"} -> SubSeq(s, 3, Len(s))
    [] prefix = "0" -> SubSeq(s, 2, Len(s))
    [] NatLead0(s, base) /\ prefix = "none" -> <<>>
    [] OTHER -> s

\* nat.scan: its result from that of the loop; rest is TRUE when the loop
\* left characters unread
NatResult(st, prefix, rest) ==
  [ok   |-> ~(st.invalSep \/ st.prev = "_")
              /\ ~(st.count = 0 /\ prefix # "0"),
   mag  |-> st.mag,
   rest |-> rest]

NatScanBody(body, b, base, prefix, count0, prev0) ==
  NatResult(ScanDigits(SubSeq(body, 1, ScanStop(body, b, base = 0) - 1), b,
                       count0, prev0),
            prefix, ScanStop(body, b, base = 0) <= Len(body))

NatScanPrefix(s, base, prefix) ==
  NatScanBody(NatBody(s, base, prefix), NatBase(base, prefix), base, prefix,
              IF NatLead0(s, base) /\ prefix = "none" THEN 1 ELSE 0,
              IF NatLead0(s, base) THEN "0" ELSE ".")

\* nat.scan with fracOk = false: [ok, mag, rest]
NatScan(s, base) == NatScanPrefix(s, base, NatPrefix(s, base))

RECURSIVE StripZeros(_)
\* nat.norm: drop the most significant zero digits
StripZeros(mag) ==
  IF mag = <<>> THEN <<>>
  ELSE IF mag[Len(mag)] = 0 THEN StripZeros(SubSeq(mag, 1, Len(mag) - 1))
  ELSE mag

BigInt(neg, mag) == [neg |-> neg /\ mag # <<>>, mag |-> mag]

\* SetString: the result from the sign and what nat.scan returned; the
\* text must have been read to its end
SetStringResult(neg, r) ==
  IF ~r.ok \/ r.rest
    THEN [ok |-> FALSE, val |-> BigInt(FALSE, <<>>)]
    ELSE [ok |-> TRUE, val |-> BigInt(neg, StripZeros(r.mag))]

\* (*big.Int).SetString(s, base): [ok, val]
SetString(s, base) ==
  IF s = <<>> THEN [ok |-> FALSE, val |-> BigInt(FALSE, <<>>)]
  ELSE IF s[1] \in {"+", "-"}
    THEN SetStringResult(s[1] = "-", NatScan(Tail(s), base))
  ELSE SetStringResult(FALSE, NatScan(s, base))

\* (*big.Int).String(): the decimal text
BigString(x) ==
  IF x.mag = <<>> THEN <<"0">>
  ELSE (IF x.neg THEN <<"-">> ELSE <<>>)
         \o [i \in 1..Len(x.mag) |-> DecDigits[x.mag[Len(x.mag) + 1 - i] + 1]]

\* 2^256, most significant digit first
Two256 ==
  <<1,1,5,7,9,2,0,8,9,2,3,7,3,1,6,1,9,5,4,2,3,5,7,0,9,8,5,0,0,8,6,8,7,9,0,7,
    8,5,3,2,6,9,9,8,4,6,6,5,6,4,0,5,6,4,0,3,9,4,5,7,5,8,4,0,0,7,9,1,3,1,2,9,
    6,3,9,9,3,6>>

\* a < b for equally long most-significant-first digit sequences
LexLess(a, b) ==
  \E i \in 1..Len(a) : a[i] < b[i] /\ \A j \in 1..(i - 1) : a[j] = b[j]

\* |x| < 2^256: the absolute value fits the 32-byte buffer of FillBytes
FitsBytes32(x) ==
  \/ Len(x.mag) < Len(Two256)
  \/ Len(x.mag) = Len(Two256) /\ LexLess(Reverse(x.mag), Two256)

----------------------------------------------------------------------------
(* strings as used by ParseZkpCode *)

IsVisible(ch) == ch \notin Invisible

IsNotZeroWidth(ch) == ch \notin {"ZWSP", "ZWNJ", "ZWJ"}

\* ParseZkpCode without the ReplaceAll call for the byte order mark
RemoveZeroWidthOnly(s) == SelectSeq(s, IsNotZeroWidth)

\* the four strings.ReplaceAll calls
RemoveInvisible(s) == SelectSeq(s, IsVisible)

RECURSIVE TrimLeft(_)
TrimLeft(s) ==
  IF s # <<>> /\ Head(s) \in WhiteSpace THEN TrimLeft(Tail(s)) ELSE s

\* strings.TrimSpace
TrimSpace(s) == Reverse(TrimLeft(Reverse(TrimLeft(s))))

\* the position of the k-th comma of s; 0 and Len(s) + 1 bracket the text
CommaPos(s, commas, k) ==
  IF k = 0 THEN 0
  ELSE IF k = Cardinality(commas) + 1 THEN Len(s) + 1
  ELSE CHOOSE i \in commas : Cardinality({j \in commas : j < i}) = k - 1

SplitAt(s, commas) ==
  [k \in 1..(Cardinality(commas) + 1) |->
     SubSeq(s, CommaPos(s, commas, k - 1) + 1, CommaPos(s, commas, k) - 1)]

\* strings.Split(s, ","): one field more than there are commas
Split(s) == SplitAt(s, {i \in 1..Len(s) : s[i] = ","})

FieldCount == 9

\* ParseZkpCode, the loop over the parts: parsed[i] is what SetString
\* returned for part i; the first part that fails ends the loop
ParseValues(parsed) ==
  IF \E i \in 1..Len(parsed) : ~parsed[i].ok
    THEN [err |-> "failed to parse value at index",
          index |-> Least({i \in 1..Len(parsed) : ~parsed[i].ok}) - 1,
          values |-> <<>>]
    ELSE [err |-> "", index |-> -1,
          values |-> [i \in 1..Len(parsed) |-> parsed[i].val]]

\* ParseZkpCode that rejects only the texts with fewer than nine parts
ParsePartsAtLeastNine(parts) ==
  IF Len(parts) < FieldCount
    THEN [err |-> "expected 9 comma-separated values", index |-> -1,
          values |-> <<>>]
    ELSE ParseValues([i \in 1..Len(parts) |->
                        SetString(TrimSpace(parts[i]), 0)])

ParseParts(parts) ==
  IF Len(parts) # FieldCount
    THEN [err |-> "expected 9 comma-separated values", index |-> -1,
          values |-> <<>>]
    ELSE ParseValues([i \in 1..Len(parts) |->
                        SetString(TrimSpace(parts[i]), 0)])

\* ParseZkpCode: [err, index, values]; err is "" on success, values are the
\* nine scalars in the order A[0],A[1],B[0][0],B[0][1],B[1][0],B[1][1],
\* C[0],C[1],Input[0]
ParseZkpCode(code) == ParseParts(Split(TrimSpace(RemoveInvisible(code))))

\* payload.Input[0]
PayloadInput0(values) == values[9]

----------------------------------------------------------------------------
(* bounds and input sets *)

NumProcs == 2

MaxAttempts == 2

Procs == 1..NumProcs

\* common.ZkpPrivateKey: unset, set to text that is no hex key, set to a key
Keys == {"", "nothex", "0xKEY"}

\* the addresses the verifier contract may report as hashDeployer
Addresses == {"addrA", "addrB"}

\* ethcommon.Address.Hex(): never the empty string
Hex(a) == IF a = "addrA" THEN "0xAAAA" ELSE "0xBBBB"

Wallets == {Hex(a) : a \in Addresses}

Code1to9 ==
  <<"1", ",", "2", ",", "3", ",", "4", ",", "5", ",", "6", ",", "7", ",",
    "8", ",", "9">>

CodeHexInput ==
  <<"BOM", "1", ",", "2", ",", "3", ",", "4", ",", "5", ",", "6", ",", "7",
    ",", "8", ",", " ", "0", "x", "1", "0">>

CodeThreeFields == <<"1", ",", "2", ",", "3">>

CodeBadField ==
  <<"1", ",", "2", ",", "3", ",", "4", ",", "5", ",", "6", ",", "7", ",",
    "8", ",", "9", "z">>

\* req.ZkpCode; the empty text fails binding:"required"
ZkpCodes == {<<>>, Code1to9, CodeHexInput, CodeThreeFields, CodeBadField}

AffCodes == {"", "AFF"}

\* the zero value of ZkpLoginRequest, with text that is no JSON object
NoRequest == [json |-> FALSE, ZkpCode |-> <<>>, AffCode |-> ""]

\* request bodies: text that is no JSON object, or a ZkpLoginRequest
Requests == {NoRequest} \cup [json : {TRUE}, ZkpCode : ZkpCodes, AffCode : AffCodes]

----------------------------------------------------------------------------
(* messages of the responses, controller/zkp.go *)

MsgNotConfigured == "ZKP authentication is not configured"

MsgInvalidPayload == "INVALID_PAYLOAD"

MsgInvalidZkpCode == "INVALID_ZKP_CODE"

MsgProofInvalid == "PROOF_INVALID"

MsgNotClubMember == "NOT_CLUB_MEMBER"

\* controller/zkp.go:99, a Chinese sentence: the user has been deleted
MsgUserDeleted == "zh: user has been deleted"

\* controller/zkp.go:115, a Chinese sentence: the administrator has closed
\* new user registration
MsgRegisterClosed == "zh: administrator closed new user registration"

\* controller/zkp.go:146, a Chinese sentence: the user has been banned
MsgUserBanned == "zh: user has been banned"

\* controller/zkp.go:165, a Chinese sentence: cannot save the session
\* information, please retry
MsgSessionSave == "zh: cannot save session information, please retry"

\* err.Error() of an account-store error
MsgStoreError == "err.Error()"

----------------------------------------------------------------------------
(* state *)

VARIABLES
  ZkpPrivateKey,    \* common.ZkpPrivateKey
  RegisterEnabled,  \* common.RegisterEnabled
  ethClientOnce,    \* "new", "running" or "done"
  ethClient,        \* TRUE when Dial returned a client
  ethClientErr,     \* "" or the dial error
  abiOnce,          \* "new", "running" or "done"
  zkpABI,           \* TRUE when the verifier ABI is parsed
  membershipABI,    \* TRUE when the membership ABI is parsed
  dials,            \* number of ethclient.Dial calls made
  parses,           \* number of runs of the ABI parsing function
  txs,              \* transactions the chain node accepted from the signer
  users,            \* rows of the account store
  nextId,           \* next primary key of the account store
  attempts,         \* number of operations started
  procs             \* per goroutine: the running operation and its locals

vars ==
  <<ZkpPrivateKey, RegisterEnabled, ethClientOnce, ethClient, ethClientErr,
    abiOnce, zkpABI, membershipABI, dials, parses, txs, users, nextId,
    attempts, procs>>

config == <<ZkpPrivateKey>>

chainClient ==
  <<ethClientOnce, ethClient, ethClientErr, abiOnce, zkpABI, membershipABI,
    dials, parses>>

store == <<users, nextId>>

\* the zero value of model.User
ZeroUser ==
  [Id |-> 0, WalletAddress |-> "", Status |-> "zero", ZkpHash |-> <<>>,
   Role |-> "zero", Group |-> ""]

NoStatus == [err |-> "none", flags |-> <<>>]

NoResp == [success |-> FALSE, message |-> "none", http |-> 0, data |-> ZeroUser,
           tx_hash |-> <<>>]

NoSession == [id |-> 0, role |-> "zero", status |-> "zero", group |-> ""]

\* a goroutine that runs nothing
Idle ==
  [op |-> "none", pc |-> "idle", frame |-> "none", attempt |-> 0,
   arg |-> <<>>, req |-> NoRequest, payload |-> <<>>, abi |-> FALSE,
   nonce |-> 0, isValid |-> "none", walletAddress |-> "", txHash |-> <<>>,
   verifyErr |-> "", storeErr |-> "", status |-> NoStatus, isMember |-> "none", inviterId |-> 0, user |-> ZeroUser,
   session |-> NoSession, resp |-> NoResp, ret |-> "none", trace |-> <<>>]

Init ==
  /\ ZkpPrivateKey \in Keys
  /\ RegisterEnabled \in BOOLEAN
  /\ ethClientOnce = "new" /\ ethClient = FALSE /\ ethClientErr = ""
  /\ abiOnce = "new" /\ zkpABI = FALSE /\ membershipABI = FALSE
  /\ dials = 0 /\ parses = 0
  /\ txs = <<>>
  /\ users = {}
  /\ nextId = 1
  /\ attempts = 0
  /\ procs = [p \in Procs |-> Idle]

----------------------------------------------------------------------------
(* control flow of one goroutine, as functions of its locals l *)

Called(l, name) == [l EXCEPT !.trace = Append(@, name)]

\* c.JSON(http, gin.H{"success": false, "message": msg}); return
Deny(l, http, msg) ==
  [l EXCEPT !.pc = "done",
            !.resp = [success |-> FALSE, message |-> msg, http |-> http,
                      data |-> ZeroUser, tx_hash |-> <<>>]]

\* c.ShouldBindJSON(&req) with binding:"required" on ZkpCode
ShouldBindJSON(req) == req.json /\ req.ZkpCode # <<>>

\* crypto.HexToECDSA of the key without its 0x prefix
HexToECDSAOk(key) == key = "0xKEY"

\* MembershipStatus.IsMember
IsMember(flags) == flags[1] \/ flags[2] \/ flags[3] \/ flags[4]

\* ZkpStatus: status.Exists && status.IsActive; flags = <<isActive, exists>>
ExistsAndActive(flags) == flags[2] /\ flags[1]

\* the status check that answers with the sentence of the deleted account
StatusCheckDeletedMessage(l) ==
  IF l.user.Status # "enabled"
    THEN Deny(l, 200, MsgUserDeleted)
    ELSE [l EXCEPT !.pc = "session"]

\* ZkpOAuth without the status check
StatusCheckSkipped(l) == [l EXCEPT !.pc = "session"]

\* ZkpOAuth, the status check and the hand-over to setupZkpLogin
StatusCheck(l) ==
  IF l.user.Status # "enabled"
    THEN Deny(l, 200, MsgUserBanned)
    ELSE [l EXCEPT !.pc = "session"]

\* ZkpOAuth that creates the account whatever common.RegisterEnabled is
ExistingOrNewSwitchIgnored(l, taken, registerEnabled) ==
  IF taken
    THEN [l EXCEPT !.pc = "fill"]
  ELSE [l EXCEPT !.user = [l.user EXCEPT
                             !.Role = "common", !.Status = "enabled",
                             !.ZkpHash = BigString(PayloadInput0(l.payload)),
                             !.Group = "vip"],
                 !.inviterId = 0,
                 !.pc = IF l.req.AffCode # "" THEN "aff" ELSE "insert"]

\* ZkpOAuth after IsWalletAddressAlreadyTaken returned taken
ExistingOrNew(l, taken, registerEnabled) ==
  IF taken
    THEN [l EXCEPT !.pc = "fill"]
  ELSE IF ~registerEnabled
    THEN Deny(l, 200, MsgRegisterClosed)
  ELSE LET u == [l.user EXCEPT !.Role = "common", !.Status = "enabled",
                               !.ZkpHash = BigString(PayloadInput0(l.payload)),
                               !.Group = "vip"]
       IN  [l EXCEPT !.user = u, !.inviterId = 0,
                     !.pc = IF l.req.AffCode # "" THEN "aff" ELSE "insert"]

\* ZkpOAuth that updates the loaded account without the new zkpHash
AfterFillHashKept(l, err, row) ==
  IF err # "" THEN Deny([l EXCEPT !.storeErr = err], 200, MsgStoreError)
  ELSE IF row.Id = 0 THEN Deny([l EXCEPT !.user = row], 200, MsgUserDeleted)
  ELSE [l EXCEPT !.user = row, !.pc = "update"]

\* ZkpOAuth that checks the status of the loaded account before it updates it
AfterFillStatusFirst(l, err, row) ==
  IF err # "" THEN Deny([l EXCEPT !.storeErr = err], 200, MsgStoreError)
  ELSE IF row.Id = 0 THEN Deny([l EXCEPT !.user = row], 200, MsgUserDeleted)
  ELSE IF row.Status # "enabled"
    THEN Deny([l EXCEPT !.user = row], 200, MsgUserBanned)
  ELSE [l EXCEPT !.user = [row EXCEPT !.ZkpHash =
                             BigString(PayloadInput0(l.payload))],
                 !.pc = "update"]

\* ZkpOAuth after FillUserByWalletAddress: row is the loaded row, or
\* ZeroUser when no row was loaded
AfterFill(l, err, row) ==
  IF err # "" THEN Deny([l EXCEPT !.storeErr = err], 200, MsgStoreError)
  ELSE IF row.Id = 0 THEN Deny([l EXCEPT !.user = row], 200, MsgUserDeleted)
  ELSE [l EXCEPT !.user = [row EXCEPT !.ZkpHash =
                             BigString(PayloadInput0(l.payload))],
                 !.pc = "update"]

\* ZkpOAuth that goes on to the status check when user.Insert failed
AfterInsertErrorIgnored(l, err, id) ==
  StatusCheck([l EXCEPT !.storeErr = err, !.user.Id = id])

\* ZkpOAuth after user.Insert(inviterId)
AfterInsert(l, err, id) ==
  IF err # "" THEN Deny([l EXCEPT !.storeErr = err], 200, MsgStoreError)
  ELSE StatusCheck([l EXCEPT !.user.Id = id])

\* ZkpOAuth after user.Update(false): an error is logged, nothing more
AfterUpdate(l, err) == StatusCheck([l EXCEPT !.storeErr = err])

\* setupZkpLogin that answers success without looking at the error of
\* session.Save
SetupZkpLoginNoSaveCheck(l, saveErr) ==
  [l EXCEPT !.pc = "done",
            !.session = IF saveErr # "" THEN NoSession
                        ELSE [id |-> l.user.Id, role |-> l.user.Role,
                              status |-> l.user.Status,
                              group |-> l.user.Group],
            !.resp = [success |-> TRUE, message |-> "", http |-> 200,
                      data |-> l.user, tx_hash |-> l.txHash]]

\* setupZkpLogin after session.Save()
SetupZkpLogin(l, saveErr) ==
  IF saveErr # "" THEN Deny(l, 200, MsgSessionSave)
  ELSE [l EXCEPT !.pc = "done",
                 !.session = [id |-> l.user.Id, role |-> l.user.Role,
                              status |-> l.user.Status,
                              group |-> l.user.Group],
                 !.resp = [success |-> TRUE, message |-> "", http |-> 200,
                           data |-> l.user, tx_hash |-> l.txHash]]

\* the membership gate that answers NOT_CLUB_MEMBER and goes on, for want of
\* a return
IsClubMemberReturnNoReturn(l, b) ==
  IF l.op = "IsClubMember"
    THEN [l EXCEPT !.isMember = IF b THEN "true" ELSE "false",
                   !.frame = "none", !.pc = "done",
                   !.ret = IF b THEN "true" ELSE "false"]
  ELSE [l EXCEPT !.isMember = IF b THEN "true" ELSE "false",
                 !.frame = "none", !.pc = "lookup", !.status = NoStatus,
                 !.resp = IF b THEN l.resp
                          ELSE [success |-> FALSE, message |-> MsgNotClubMember,
                                http |-> 403, data |-> ZeroUser,
                                tx_hash |-> <<>>],
                 !.user = [ZeroUser EXCEPT !.WalletAddress = l.walletAddress]]

\* IsClubMember's result, and what its caller does with it; in ZkpOAuth
\* the membership gate and the construction of user
IsClubMemberReturn(l, b) ==
  LET l1 == [l EXCEPT !.isMember = IF b THEN "true" ELSE "false",
                      !.frame = "none"]
  IN  IF l.op = "IsClubMember"
        THEN [l1 EXCEPT !.pc = "done", !.ret = IF b THEN "true" ELSE "false"]
      ELSE IF ~b THEN Deny([l1 EXCEPT !.status = NoStatus], 403,
                           MsgNotClubMember)
      ELSE [l1 EXCEPT !.pc = "lookup", !.status = NoStatus,
                      !.user = [ZeroUser EXCEPT
                                  !.WalletAddress = l.walletAddress]]

\* IsClubMember that lets the caller pass when the query failed
CheckClubMembershipReturnFailOpen(l, status) ==
  IsClubMemberReturn([l EXCEPT !.status = status],
                     IF status.err # "" THEN TRUE ELSE IsMember(status.flags))

\* IsClubMember after CheckClubMembership returned (status, err)
CheckClubMembershipReturn(l, status) ==
  IsClubMemberReturn([l EXCEPT !.status = status],
                     IF status.err # "" THEN FALSE ELSE IsMember(status.flags))

\* IsClubMember up to the call of CheckClubMembership
IsClubMemberEntry(l, w) ==
  IF w = "" THEN IsClubMemberReturn(l, TRUE)
  ELSE [l EXCEPT !.frame = "cm", !.pc = "getEthClient"]

\* IsZkpValid after GetHashStatus returned (status, err)
GetHashStatusReturn(l, status) ==
  [l EXCEPT !.status = status, !.pc = "done", !.frame = "none",
            !.ret = IF status.err # "" THEN "false"
                    ELSE IF ExistsAndActive(status.flags) THEN "true"
                    ELSE "false"]

\* IsZkpValid up to the call of GetHashStatus
IsZkpValidEntry(l, zkpHash) ==
  IF zkpHash = <<>> THEN [l EXCEPT !.pc = "done", !.ret = "true"]
  ELSE [l EXCEPT !.frame = "hs", !.pc = "getEthClient"]

\* hashBigInt.FillBytes on a value of more than 32 bytes panics
Panic(l) == [l EXCEPT !.pc = "done", !.frame = "none", !.ret = "panic"]

\* ZkpOAuth that hands IsClubMember the empty address
VerifyProofReturnNoAddress(l, w, tx, err) ==
  LET l1 == [l EXCEPT !.walletAddress = w, !.txHash = tx, !.verifyErr = err,
                      !.frame = "none", !.abi = FALSE, !.nonce = 0]
  IN  IF err # "" THEN Deny(l1, 401, MsgProofInvalid)
      ELSE IsClubMemberEntry(l1, "")

\* ZkpOAuth after VerifyProof returned (walletAddress, txHash, err)
VerifyProofReturn(l, w, tx, err) ==
  LET l1 == [l EXCEPT !.walletAddress = w, !.txHash = tx, !.verifyErr = err,
                      !.frame = "none", !.abi = FALSE, !.nonce = 0]
  IN  IF err # "" THEN Deny(l1, 401, MsgProofInvalid)
      ELSE IsClubMemberEntry(l1, w)

\* VerifyProof up to the call of getEthClient
VerifyProofEntry(l, key) ==
  IF key = "" THEN VerifyProofReturn(l, "", <<>>, "not configured")
  ELSE [l EXCEPT !.frame = "vp", !.pc = "getEthClient"]

\* ZkpOAuth from the result of ParseZkpCode to the call of VerifyProof
ZkpOAuthParsed(l, key, r) ==
  IF r.err # "" THEN Deny(l, 400, MsgInvalidZkpCode)
  ELSE VerifyProofEntry([l EXCEPT !.payload = r.values], key)

\* ZkpOAuth that binds the request before it looks at the signing key
ZkpOAuthEntryBindFirst(l, key, req) ==
  IF ~ShouldBindJSON(req) THEN Deny(l, 400, MsgInvalidPayload)
  ELSE IF key = "" THEN Deny(l, 200, MsgNotConfigured)
  ELSE ZkpOAuthParsed([l EXCEPT !.req = req], key, ParseZkpCode(req.ZkpCode))

\* ZkpOAuth up to the call of VerifyProof
ZkpOAuthEntry(l, key, req) ==
  IF key = "" THEN Deny(l, 200, MsgNotConfigured)
  ELSE IF ~ShouldBindJSON(req) THEN Deny(l, 400, MsgInvalidPayload)
  ELSE ZkpOAuthParsed([l EXCEPT !.req = req], key, ParseZkpCode(req.ZkpCode))

\* the error return of the function that is running in l.frame
FrameError(l, kind) ==
  CASE l.frame = "vp" -> VerifyProofReturn(l, "", <<>>, kind)
    [] l.frame = "cm" ->
         CheckClubMembershipReturn(l, [err |-> kind, flags |-> <<>>])
    [] l.frame = "hs" -> GetHashStatusReturn(l, [err |-> kind, flags |-> <<>>])

\* the caller of getEthClient after it returned (client, err)
AfterGetEthClient(l, err) ==
  IF err # "" THEN FrameError(l, "connect") ELSE [l EXCEPT !.pc = "getABIs"]

\* getABIs: the err it returns; ran is TRUE for the caller that ran the
\* function passed to abiOnce.Do
GetABIsErr(ran, parseErr) == IF ran THEN parseErr ELSE ""

\* the caller of getABIs after it returned (zkpABI, membershipABI, err), up
\* to its first remote call
AfterGetABIs(l, err, zkp, membership, key) ==
  IF err # "" THEN FrameError(l, "abi")
  ELSE CASE l.frame = "vp" ->
              IF ~HexToECDSAOk(key) THEN FrameError(l, "private key")
              ELSE [l EXCEPT !.abi = zkp, !.pc = "nonce"]
         [] l.frame = "cm" ->
              IF ~membership THEN FrameError(l, "pack")
              ELSE [l EXCEPT !.pc = "call"]
         [] l.frame = "hs" ->
              LET h == SetString(l.arg, 10)
              IN  IF ~h.ok THEN FrameError(l, "decimal")
                  ELSE IF ~FitsBytes32(h.val) THEN Panic(l)
                  ELSE IF ~zkp THEN FrameError(l, "pack")
                  ELSE [l EXCEPT !.pc = "call"]

\* VerifyProof after SuggestGasPrice: zkpABI.Pack("verifyProof", ...)
AfterGasPrice(l, err) ==
  IF err # "" THEN FrameError(l, "gas price")
  ELSE IF ~l.abi THEN FrameError(l, "pack")
  ELSE [l EXCEPT !.pc = "simulate"]

\* VerifyProof that goes on to Transact whatever isValid is
AfterSimulationNoValidCheck(l, out) ==
  IF out.err # "" THEN FrameError([l EXCEPT !.isValid = "error"], out.err)
  ELSE [l EXCEPT !.isValid = IF out.isValid THEN "true" ELSE "false",
                 !.walletAddress = Hex(out.hashDeployer), !.pc = "transact"]

\* VerifyProof after client.CallContract: out is "call failed", "undecodable"
\* or the decoded [hashDeployer, isValid]
AfterSimulation(l, out) ==
  IF out.err # "" THEN FrameError([l EXCEPT !.isValid = "error"], out.err)
  ELSE IF ~out.isValid
    THEN FrameError([l EXCEPT !.isValid = "false"], "proof verification failed")
  ELSE [l EXCEPT !.isValid = "true", !.walletAddress = Hex(out.hashDeployer),
                 !.pc = "transact"]

\* VerifyProof that drops the error of Transact
AfterTransactErrorDropped(l, err, hash) ==
  VerifyProofReturn(l, l.walletAddress, IF err # "" THEN <<>> ELSE hash, "")

\* VerifyProof that returns no address when Transact fails
AfterTransactAddressDropped(l, err, hash) ==
  IF err # "" THEN VerifyProofReturn(l, "", <<>>, err)
  ELSE VerifyProofReturn(l, l.walletAddress, hash, "")

\* VerifyProof after Transact
AfterTransact(l, err, hash) ==
  IF err # "" THEN VerifyProofReturn(l, l.walletAddress, <<>>, err)
  ELSE VerifyProofReturn(l, l.walletAddress, hash, "")

----------------------------------------------------------------------------
(* the chain node and the account store *)

\* what client.CallContract and Unpack yield for verifyProof
SimOutcomes ==
  {[err |-> e, hashDeployer |-> "addrA", isValid |-> FALSE] :
     e \in {"call failed", "undecodable"}}
    \cup [err : {""}, hashDeployer : Addresses, isValid : BOOLEAN]

\* what client.CallContract and Unpack yield for checkDetailedMembership
MembershipOutcomes ==
  {[err |-> e, flags |-> <<>>] : e \in {"call failed", "undecodable"}}
    \cup {[err |-> "", flags |-> <<a, b, c, d>>] : a, b, c, d \in BOOLEAN}

\* what client.CallContract and Unpack yield for getHashStatus
HashStatusOutcomes ==
  {[err |-> e, flags |-> <<>>] : e \in {"call failed", "undecodable"}}
    \cup {[err |-> "", flags |-> <<a, e>>] : a, e \in BOOLEAN}

\* client.PendingNonceAt: the next nonce of the signer
PendingNonce ==
  IF txs = <<>> THEN 0
  ELSE 1 + (CHOOSE n \in {txs[i].nonce : i \in 1..Len(txs)} :
              \A i \in 1..Len(txs) : txs[i].nonce <= n)

\* tx.Hash().Hex(): never the empty string
TxHash(attempt) == <<"0", "x", "T", "X", attempt>>

\* model.IsWalletAddressAlreadyTaken: soft-deleted rows count
IsWalletAddressAlreadyTaken(w) == \E r \in users : r.WalletAddress = w

\* the rows FillUserByWalletAddress can load for w
LiveRows(w) == {r \in users : r.WalletAddress = w /\ ~r.Deleted}

\* a row as the fields of model.User
RowUser(r) ==
  [Id |-> r.Id, WalletAddress |-> r.WalletAddress, Status |-> r.Status,
   ZkpHash |-> r.ZkpHash, Role |-> r.Role, Group |-> r.Group]

\* user.Update(false): the row of user.Id takes the new zkpHash
Update(u) ==
  {IF r.Id = u.Id THEN [r EXCEPT !.ZkpHash = u.ZkpHash] ELSE r : r \in users}

\* user.Insert(inviterId): a new row under the next primary key
Insert(u, inviterId) ==
  users \cup {[Id |-> nextId, WalletAddress |-> u.WalletAddress,
               Status |-> u.Status, ZkpHash |-> u.ZkpHash, Role |-> u.Role,
               Group |-> u.Group, Deleted |-> FALSE,
               InviterId |-> inviterId]}

----------------------------------------------------------------------------
(* actions *)

Set(p, l) == procs' = [procs EXCEPT ![p] = l]

\* a goroutine takes up a new operation; operations run one after the
\* other, each on any of the goroutines
Start(p) ==
  /\ \A q \in Procs : procs[q].pc = "idle"
  /\ attempts < MaxAttempts
  /\ attempts' = attempts + 1

Fresh(op) == [Idle EXCEPT !.op = op, !.attempt = attempts + 1]

\* ZkpOAuth from the request to the call of getEthClient in VerifyProof
ZkpOAuthBegin(p) ==
  /\ Start(p)
  /\ \E req \in Requests :
       Set(p, ZkpOAuthEntry(Fresh("ZkpOAuth"), ZkpPrivateKey, req))
  /\ UNCHANGED <<config, RegisterEnabled, chainClient, txs, store>>

\* IsClubMember called by another part of the server
IsClubMemberCall(p) ==
  /\ Start(p)
  /\ \E w \in Wallets \cup {""} :
       Set(p, IsClubMemberEntry([Fresh("IsClubMember") EXCEPT
                                   !.walletAddress = w], w))
  /\ UNCHANGED <<config, RegisterEnabled, chainClient, txs, store>>

Two256Text == [i \in 1..Len(Two256) |-> DecDigits[Two256[i] + 1]]

MaxUint256Text == [Two256Text EXCEPT ![Len(Two256)] = "5"]

\* identifiers handed to IsZkpValid
HashIds ==
  {<<>>, <<"1", "6">>, <<"0", "x", "1", "0">>, <<"-", "5">>, MaxUint256Text,
   Two256Text}

\* IsZkpValid called by another part of the server
IsZkpValidCall(p) ==
  /\ Start(p)
  /\ \E h \in HashIds :
       Set(p, IsZkpValidEntry([Fresh("IsZkpValid") EXCEPT !.arg = h], h))
  /\ UNCHANGED <<config, RegisterEnabled, chainClient, txs, store>>

\* getEthClient that dials whenever no dial has completed, without the once
EthOnceEnterUnguarded(p) ==
  /\ procs[p].pc = "getEthClient"
  /\ ethClientOnce # "done"
  /\ ethClientOnce' = "running"
  /\ Set(p, [procs[p] EXCEPT !.pc = "dialing"])
  /\ UNCHANGED <<config, RegisterEnabled, ethClient, ethClientErr, abiOnce,
                 zkpABI, membershipABI, dials, parses, txs, store, attempts>>

\* getEthClient: ethClientOnce.Do finds the once unused and runs Dial
EthOnceEnter(p) ==
  /\ procs[p].pc = "getEthClient"
  /\ ethClientOnce = "new"
  /\ ethClientOnce' = "running"
  /\ Set(p, [procs[p] EXCEPT !.pc = "dialing"])
  /\ UNCHANGED <<config, RegisterEnabled, ethClient, ethClientErr, abiOnce,
                 zkpABI, membershipABI, dials, parses, txs, store, attempts>>

\* ethclient.Dial returns; the once is done and getEthClient returns
EthDialDone(p) ==
  /\ procs[p].pc = "dialing"
  /\ \E err \in {"", "dial failed"} :
       /\ ethClient' = (err = "")
       /\ ethClientErr' = err
       /\ Set(p, AfterGetEthClient(Called(procs[p], "Dial"), err))
  /\ ethClientOnce' = "done"
  /\ dials' = dials + 1
  /\ UNCHANGED <<config, RegisterEnabled, abiOnce, zkpABI, membershipABI,
                 parses, txs, store, attempts>>

\* getEthClient when the once is done; a caller waits while it is running
EthOnceDone(p) ==
  /\ procs[p].pc = "getEthClient"
  /\ ethClientOnce = "done"
  /\ Set(p, AfterGetEthClient(procs[p], ethClientErr))
  /\ UNCHANGED <<config, RegisterEnabled, chainClient, txs, store, attempts>>

\* getABIs: abiOnce.Do finds the once unused and runs the parsing function
AbiOnceEnter(p) ==
  /\ procs[p].pc = "getABIs"
  /\ abiOnce = "new"
  /\ abiOnce' = "running"
  /\ Set(p, [procs[p] EXCEPT !.pc = "parsing"])
  /\ UNCHANGED <<config, RegisterEnabled, ethClientOnce, ethClient,
                 ethClientErr, zkpABI, membershipABI, dials, parses, txs,
                 store, attempts>>

\* the parsing function returns: both ABIs, the first only, or none
AbiParseDone(p) ==
  /\ procs[p].pc = "parsing"
  /\ \E out \in {"both", "verifier only", "none"} :
       /\ zkpABI' = (out # "none")
       /\ membershipABI' = (out = "both")
       /\ Set(p, AfterGetABIs(Called(procs[p], "ParseABI"),
                              GetABIsErr(TRUE, IF out = "both" THEN ""
                                               ELSE "abi.JSON failed"),
                              zkpABI', membershipABI', ZkpPrivateKey))
  /\ abiOnce' = "done"
  /\ parses' = parses + 1
  /\ UNCHANGED <<config, RegisterEnabled, ethClientOnce, ethClient,
                 ethClientErr, dials, txs, store, attempts>>

\* getABIs when the once is done
AbiOnceDone(p) ==
  /\ procs[p].pc = "getABIs"
  /\ abiOnce = "done"
  /\ Set(p, AfterGetABIs(procs[p],
                         GetABIsErr(FALSE, IF membershipABI THEN ""
                                           ELSE "abi.JSON failed"),
                         zkpABI, membershipABI, ZkpPrivateKey))
  /\ UNCHANGED <<config, RegisterEnabled, chainClient, txs, store, attempts>>

\* VerifyProof: client.PendingNonceAt
PendingNonceAt(p) ==
  /\ procs[p].pc = "nonce"
  /\ \E err \in {"", "nonce"} :
       Set(p, IF err # ""
                THEN FrameError(Called(procs[p], "PendingNonceAt"), err)
                ELSE [Called(procs[p], "PendingNonceAt") EXCEPT
                        !.nonce = PendingNonce, !.pc = "gasPrice"])
  /\ UNCHANGED <<config, RegisterEnabled, chainClient, txs, store, attempts>>

\* VerifyProof: client.SuggestGasPrice, then the packing of the call data
SuggestGasPrice(p) ==
  /\ procs[p].pc = "gasPrice"
  /\ \E err \in {"", "gas price"} :
       Set(p, AfterGasPrice(Called(procs[p], "SuggestGasPrice"), err))
  /\ UNCHANGED <<config, RegisterEnabled, chainClient, txs, store, attempts>>

\* VerifyProof: the simulation, client.CallContract and Unpack
Simulate(p) ==
  /\ procs[p].pc = "simulate"
  /\ \E out \in SimOutcomes :
       Set(p, AfterSimulation(Called(procs[p], "CallContract verifyProof"),
                              out))
  /\ UNCHANGED <<config, RegisterEnabled, chainClient, txs, store, attempts>>

\* VerifyProof that asks for the pending nonce again when it submits
TransactPendingNonce(p) ==
  /\ procs[p].pc = "transact"
  /\ \E err \in {"", "send failed"} :
       /\ txs' = IF err = ""
                   THEN Append(txs, [attempt |-> procs[p].attempt,
                                     nonce |-> PendingNonce])
                   ELSE txs
       /\ Set(p, AfterTransact(Called(procs[p], "Transact"), err,
                               TxHash(procs[p].attempt)))
  /\ UNCHANGED <<config, RegisterEnabled, chainClient, store, attempts>>

\* VerifyProof: Transact signs and sends the transaction
Transact(p) ==
  /\ procs[p].pc = "transact"
  /\ \E err \in {"", "send failed"} :
       /\ txs' = IF err = ""
                   THEN Append(txs, [attempt |-> procs[p].attempt,
                                     nonce |-> procs[p].nonce])
                   ELSE txs
       /\ Set(p, AfterTransact(Called(procs[p], "Transact"), err,
                               TxHash(procs[p].attempt)))
  /\ UNCHANGED <<config, RegisterEnabled, chainClient, store, attempts>>

\* CheckClubMembership: client.CallContract and Unpack
CallMembership(p) ==
  /\ procs[p].pc = "call" /\ procs[p].frame = "cm"
  /\ \E out \in MembershipOutcomes :
       Set(p, CheckClubMembershipReturn(
                Called(procs[p], "CallContract checkDetailedMembership"),
                out))
  /\ UNCHANGED <<config, RegisterEnabled, chainClient, txs, store, attempts>>

\* GetHashStatus: client.CallContract and Unpack
CallHashStatus(p) ==
  /\ procs[p].pc = "call" /\ procs[p].frame = "hs"
  /\ \E out \in HashStatusOutcomes :
       Set(p, GetHashStatusReturn(
                Called(procs[p], "CallContract getHashStatus"), out))
  /\ UNCHANGED <<config, RegisterEnabled, chainClient, txs, store, attempts>>

\* ZkpOAuth: IsWalletAddressAlreadyTaken and the registration switch
Lookup(p) ==
  /\ procs[p].pc = "lookup"
  /\ Set(p, ExistingOrNew(Called(procs[p], "IsWalletAddressAlreadyTaken"),
                          IsWalletAddressAlreadyTaken(procs[p].walletAddress),
                          RegisterEnabled))
  /\ UNCHANGED <<config, RegisterEnabled, chainClient, txs, store, attempts>>

\* ZkpOAuth: user.FillUserByWalletAddress, which may fail, load a row or
\* find no row to load
FillUserByWalletAddress(p) ==
  /\ procs[p].pc = "fill"
  /\ LET l == Called(procs[p], "FillUserByWalletAddress")
         live == LiveRows(l.walletAddress)
     IN  \/ Set(p, AfterFill(l, "store error", ZeroUser))
         \/ \E r \in live : Set(p, AfterFill(l, "", RowUser(r)))
         \/ /\ live = {}
            /\ Set(p, AfterFill(l, "", [ZeroUser EXCEPT !.WalletAddress =
                                          l.walletAddress]))
  /\ UNCHANGED <<config, RegisterEnabled, chainClient, txs, store, attempts>>

\* ZkpOAuth: user.Update(false); its failure is logged only
UpdateUser(p) ==
  /\ procs[p].pc = "update"
  /\ \E err \in {"", "store error"} :
       /\ users' = IF err = "" THEN Update(procs[p].user) ELSE users
       /\ Set(p, AfterUpdate(Called(procs[p], "Update"), err))
  /\ UNCHANGED <<config, RegisterEnabled, chainClient, txs, nextId, attempts>>

\* ZkpOAuth: model.GetUserIdByAffCode, best effort
GetUserIdByAffCode(p) ==
  /\ procs[p].pc = "aff"
  /\ \E id \in {0} \cup {r.Id : r \in users} :
       Set(p, [Called(procs[p], "GetUserIdByAffCode") EXCEPT
                 !.inviterId = id, !.pc = "insert"])
  /\ UNCHANGED <<config, RegisterEnabled, chainClient, txs, store, attempts>>

\* ZkpOAuth: user.Insert(inviterId)
InsertUser(p) ==
  /\ procs[p].pc = "insert"
  /\ \E err \in {"", "store error"} :
       /\ users' = IF err = "" THEN Insert(procs[p].user, procs[p].inviterId)
                   ELSE users
       /\ nextId' = IF err = "" THEN nextId + 1 ELSE nextId
       /\ Set(p, AfterInsert(Called(procs[p], "Insert"), err, nextId))
  /\ UNCHANGED <<config, RegisterEnabled, chainClient, txs, attempts>>

\* setupZkpLogin: session.Save and the response
SessionSave(p) ==
  /\ procs[p].pc = "session"
  /\ \E err \in {"", "save failed"} :
       Set(p, SetupZkpLogin(Called(procs[p], "session.Save"), err))
  /\ UNCHANGED <<config, RegisterEnabled, chainClient, txs, store, attempts>>

\* the response is written, or the result returned to the caller, and the
\* goroutine ends
Return(p) ==
  /\ procs[p].pc = "done"
  /\ Set(p, Idle)
  /\ UNCHANGED <<config, RegisterEnabled, chainClient, txs, store, attempts>>

\* an administrator enables or disables an account
AdminSetStatus ==
  /\ \E r \in users : \E st \in {"enabled", "disabled"} :
       /\ r.Status # st
       /\ users' = (users \ {r}) \cup {[r EXCEPT !.Status = st]}
  /\ UNCHANGED <<config, RegisterEnabled, chainClient, txs, nextId, attempts,
                 procs>>

\* an account is deleted (soft delete: the row stays)
AdminDelete ==
  /\ \E r \in users :
       /\ ~r.Deleted
       /\ users' = (users \ {r}) \cup {[r EXCEPT !.Deleted = TRUE]}
  /\ UNCHANGED <<config, RegisterEnabled, chainClient, txs, nextId, attempts,
                 procs>>

\* an administrator opens or closes the registration of new users
AdminSetRegister ==
  /\ RegisterEnabled' = ~RegisterEnabled
  /\ UNCHANGED <<config, chainClient, txs, store, attempts, procs>>

Next ==
  \/ \E p \in Procs :
       \/ ZkpOAuthBegin(p) \/ IsClubMemberCall(p) \/ IsZkpValidCall(p)
       \/ EthOnceEnter(p) \/ EthDialDone(p) \/ EthOnceDone(p)
       \/ AbiOnceEnter(p) \/ AbiParseDone(p) \/ AbiOnceDone(p)
       \/ PendingNonceAt(p) \/ SuggestGasPrice(p) \/ Simulate(p)
       \/ Transact(p) \/ CallMembership(p) \/ CallHashStatus(p)
       \/ Lookup(p) \/ FillUserByWalletAddress(p) \/ UpdateUser(p)
       \/ GetUserIdByAffCode(p) \/ InsertUser(p) \/ SessionSave(p)
       \/ Return(p)
  \/ AdminSetStatus \/ AdminDelete \/ AdminSetRegister

Spec == Init /\ [][Next]_vars

----------------------------------------------------------------------------
(* concurrent callers of the chain client *)

\* a goroutine takes up a new operation while others are running theirs
Go(p) ==
  /\ procs[p].pc = "idle"
  /\ attempts < MaxAttempts
  /\ attempts' = attempts + 1

\* IsClubMember called while other calls are in progress
IsClubMemberGo(p) ==
  /\ Go(p)
  /\ \E w \in Wallets \cup {""} :
       Set(p, IsClubMemberEntry([Fresh("IsClubMember") EXCEPT
                                   !.walletAddress = w], w))
  /\ UNCHANGED <<config, RegisterEnabled, chainClient, txs, store>>

\* IsZkpValid called while other calls are in progress
IsZkpValidGo(p) ==
  /\ Go(p)
  /\ \E h \in {<<>>, <<"1", "6">>, <<"0", "x", "1", "0">>} :
       Set(p, IsZkpValidEntry([Fresh("IsZkpValid") EXCEPT !.arg = h], h))
  /\ UNCHANGED <<config, RegisterEnabled, chainClient, txs, store>>

\* concurrent callers of getEthClient and getABIs, each up to its remote
\* call or to its return without one
NextConcurrent ==
  \E p \in Procs :
    \/ IsClubMemberGo(p) \/ IsZkpValidGo(p)
    \/ EthOnceEnter(p) \/ EthDialDone(p) \/ EthOnceDone(p)
    \/ AbiOnceEnter(p) \/ AbiParseDone(p) \/ AbiOnceDone(p)
    \/ Return(p)

SpecConcurrent == Init /\ [][NextConcurrent]_vars

----------------------------------------------------------------------------
(* claims *)

\* the calls an operation made, in order
Calls(l) == {l.trace[i] : i \in 1..Len(l.trace)}

TxsOf(attempt) == {i \in 1..Len(txs) : txs[i].attempt = attempt}

\* C1: a login is answered with success only if in that attempt the signing
\* key was configured, the request bound and ParseZkpCode succeeded, the
\* simulation returned isValid = true, the transaction was submitted
\* (tx_hash not empty), IsClubMember returned true for the derived wallet
\* address, the account of that wallet exists with a non-zero id and the
\* status enabled, and the session was saved.
C1_SuccessOnlyAfterEveryStep ==
  \A p \in Procs :
    procs[p].resp.success =>
      /\ procs[p].op = "ZkpOAuth" /\ procs[p].pc = "done"
      /\ ZkpPrivateKey # ""
      /\ procs[p].req.json /\ procs[p].req.ZkpCode \in {Code1to9, CodeHexInput}
      /\ Len(procs[p].payload) = FieldCount
      /\ procs[p].isValid = "true" /\ procs[p].verifyErr = ""
      /\ procs[p].resp.tx_hash # <<>>
      /\ procs[p].resp.tx_hash = procs[p].txHash
      /\ Cardinality(TxsOf(procs[p].attempt)) = 1
      /\ procs[p].isMember = "true"
      /\ procs[p].walletAddress \in Wallets
      /\ "CallContract checkDetailedMembership" \in Calls(procs[p])
      /\ procs[p].resp.data.Id # 0
      /\ procs[p].resp.data.Status = "enabled"
      /\ procs[p].resp.data.WalletAddress = procs[p].walletAddress
      /\ \E r \in users : /\ r.Id = procs[p].resp.data.Id
                          /\ r.WalletAddress = procs[p].walletAddress
      /\ procs[p].session # NoSession
      /\ procs[p].session.id = procs[p].resp.data.Id
      /\ procs[p].trace[Len(procs[p].trace)] = "session.Save"

C1_Witness ==
  \E p \in Procs : procs[p].resp.success /\ procs[p].pc = "done"

\* C2: VerifyProof submits no transaction for a proof whose simulation
\* failed, could not be decoded or returned isValid = false; a call submits
\* at most one transaction, and only after its own simulation returned
\* isValid = true.
C2_TransactOnlyAfterValidSimulation ==
  /\ \A i \in 1..Len(txs) : Cardinality(TxsOf(txs[i].attempt)) = 1
  /\ \A p \in Procs :
       /\ procs[p].isValid # "true" =>
            /\ TxsOf(procs[p].attempt) = {}
            /\ "Transact" \notin Calls(procs[p])
            /\ procs[p].txHash = <<>>
       /\ procs[p].attempt # 0 /\ TxsOf(procs[p].attempt) # {} =>
            /\ procs[p].isValid = "true"
            /\ \E i, j \in 1..Len(procs[p].trace) :
                 /\ i < j
                 /\ procs[p].trace[i] = "CallContract verifyProof"
                 /\ procs[p].trace[j] = "Transact"
       /\ Cardinality({i \in 1..Len(procs[p].trace) :
                         procs[p].trace[i] = "Transact"}) <= 1

C2_Witness ==
  \E p \in Procs :
    /\ procs[p].isValid = "true"
    /\ Cardinality(TxsOf(procs[p].attempt)) = 1

\* C3: IsClubMember is fail-closed: for the empty wallet address it returns
\* true without a remote query; for a non-empty address it returns true
\* exactly when the membership query succeeded and one of the four flags is
\* true; for every query error (connect, ABI, pack, call failure or
\* timeout, decode) it returns false.
C3_IsClubMemberFailClosed ==
  \A p \in Procs :
    procs[p].op = "IsClubMember" /\ procs[p].pc = "done" =>
      /\ procs[p].ret \in {"true", "false"}
      /\ procs[p].walletAddress = "" =>
           procs[p].ret = "true" /\ procs[p].trace = <<>>
      /\ procs[p].walletAddress # "" =>
           /\ procs[p].status.err \in
                {"", "connect", "abi", "pack", "call failed", "undecodable"}
           /\ procs[p].status.err # "" => procs[p].ret = "false"
           /\ procs[p].ret = "true" <=>
                /\ procs[p].status.err = ""
                /\ "CallContract checkDetailedMembership" \in Calls(procs[p])
                /\ \E i \in 1..4 : procs[p].status.flags[i]

C3_Witness ==
  \E p \in Procs :
    /\ procs[p].op = "IsClubMember" /\ procs[p].pc = "done"
    /\ procs[p].walletAddress # ""
    /\ procs[p].status.err = "call failed"
    /\ procs[p].ret = "false"

\* C4: IsZkpValid is fail-closed: true for the empty identifier; for a
\* non-empty identifier true exactly when GetHashStatus succeeded with exists
\* and isActive; false for every error of the status query, an identifier
\* that is no decimal number or does not fit 32 bytes included.  The call
\* with the identifier 2^256 ends in the panic of FillBytes instead of
\* returning false.
C4_IsZkpValidFailClosed ==
  \A p \in Procs :
    procs[p].op = "IsZkpValid" /\ procs[p].pc = "done" =>
      /\ procs[p].ret \in {"true", "false"}
      /\ procs[p].arg = <<>> => procs[p].ret = "true"
      /\ procs[p].arg # <<>> =>
           /\ procs[p].status.err # "" => procs[p].ret = "false"
           /\ procs[p].ret = "true" <=>
                /\ procs[p].status.err = ""
                /\ procs[p].status.flags = <<TRUE, TRUE>>

\* the login attempts that ended without success
Denied(l) == l.op = "ZkpOAuth" /\ l.pc = "done" /\ ~l.resp.success

LastCall(l) == IF l.trace = <<>> THEN "" ELSE l.trace[Len(l.trace)]

\* the reason codes of the response contract
ReasonCodes ==
  {"INVALID_PAYLOAD", "INVALID_ZKP_CODE", "PROOF_INVALID", "NOT_CLUB_MEMBER",
   "FEATURE_DISABLED", "REGISTRATION_DISABLED", "ACCOUNT_DELETED",
   "ACCOUNT_DISABLED", "PERSIST_ERROR", "SESSION_ERROR"}

\* C5 as stated: the message of every denial is one of the ten reason codes.
C5_ReasonInClosedSet ==
  \A p \in Procs : Denied(procs[p]) => procs[p].resp.message \in ReasonCodes

\* the message the denial of attempt l carries, from what happened in l
DenialMessage(l) ==
  IF ZkpPrivateKey = "" THEN MsgNotConfigured
  ELSE IF l.req = NoRequest THEN MsgInvalidPayload
  ELSE IF l.payload = <<>> THEN MsgInvalidZkpCode
  ELSE IF l.verifyErr # "" THEN MsgProofInvalid
  ELSE IF l.isMember = "false" THEN MsgNotClubMember
  ELSE IF LastCall(l) = "IsWalletAddressAlreadyTaken" THEN MsgRegisterClosed
  ELSE IF LastCall(l) = "FillUserByWalletAddress"
    THEN (IF l.storeErr # "" THEN MsgStoreError ELSE MsgUserDeleted)
  ELSE IF LastCall(l) = "Insert" /\ l.storeErr # "" THEN MsgStoreError
  ELSE IF LastCall(l) \in {"Update", "Insert"} THEN MsgUserBanned
  ELSE IF LastCall(l) = "session.Save" THEN MsgSessionSave
  ELSE "no denial"

\* C5, amended: every denial carries success = false and a message fixed by
\* the kind of the denial; a bad payload, a bad code, a failure of
\* VerifyProof and a non-member carry the codes INVALID_PAYLOAD,
\* INVALID_ZKP_CODE, PROOF_INVALID and NOT_CLUB_MEMBER; the missing key,
\* registration off, the deleted account, the disabled account and the
\* session failure carry a sentence of their own, none of them a reason
\* code; a failure to load or to create the account carries the text of the
\* store's error.
C5_MessageByDenialKind ==
  \A p \in Procs :
    Denied(procs[p]) =>
      /\ procs[p].resp.message = DenialMessage(procs[p])
      /\ procs[p].resp.message \in ReasonCodes <=>
           \/ ZkpPrivateKey # "" /\ procs[p].req = NoRequest
           \/ ZkpPrivateKey # "" /\ procs[p].payload = <<>>
           \/ procs[p].verifyErr # ""
           \/ procs[p].isMember = "false"
      /\ procs[p].resp.data = ZeroUser /\ procs[p].resp.tx_hash = <<>>

C5_Witness ==
  \E p \in Procs :
    /\ Denied(procs[p])
    /\ LastCall(procs[p]) = "Update"
    /\ procs[p].resp.message = MsgUserBanned

\* messages of the denials at or before the membership gate
PreGateMessages ==
  {MsgNotConfigured, MsgInvalidPayload, MsgInvalidZkpCode, MsgProofInvalid,
   MsgNotClubMember}

\* the calls that read or write the account store or the session
StoreCalls ==
  {"IsWalletAddressAlreadyTaken", "FillUserByWalletAddress", "Update",
   "GetUserIdByAffCode", "Insert", "session.Save"}

\* an attempt that did not pass the membership gate
NotPastGate(l) ==
  /\ l.op = "ZkpOAuth"
  /\ \/ l.isMember # "true"
     \/ l.verifyErr # ""
     \/ l.pc = "done" /\ l.resp.message \in PreGateMessages

C6_NoStoreCallBeforeGate ==
  \A p \in Procs :
    NotPastGate(procs[p]) =>
      /\ Calls(procs[p]) \cap StoreCalls = {}
      /\ procs[p].session = NoSession
      /\ ~procs[p].resp.success
      /\ procs[p].user = ZeroUser
      /\ procs[p].pc \notin {"lookup", "fill", "update", "aff", "insert",
                             "session"}

C6_StoreWrittenPastGate ==
  store' # store /\ procs' # procs =>
    \E p \in Procs :
      /\ procs'[p] # procs[p]
      /\ ~NotPastGate(procs[p])
      /\ procs[p].pc \in {"update", "insert"}

\* C6: a login attempt denied at or before the membership gate (key
\* missing, invalid payload, invalid zkpCode, any failure of VerifyProof,
\* IsClubMember false) made no call to the account store or the session:
\* no account is created or modified by it and no session is established;
\* the store is written only by steps of attempts that passed the gate.
C6_DeniedBeforeGateLeavesStore ==
  []C6_NoStoreCallBeforeGate /\ [][C6_StoreWrittenPastGate]_vars

C6_Witness ==
  \E p \in Procs :
    /\ Denied(procs[p])
    /\ procs[p].isValid = "false"
    /\ procs[p].resp.message = MsgProofInvalid
    /\ users # {}

\* C7: a login attempt that ends with NOT_CLUB_MEMBER has submitted its
\* transaction in that attempt, before the membership check ran; the
\* transaction is still on the chain when the denial is sent, and the
\* attempt submitted no other.
C7_NotClubMemberAfterTransaction ==
  \A p \in Procs :
    /\ procs[p].op = "ZkpOAuth"
         /\ (procs[p].frame = "cm" \/ procs[p].isMember # "none") =>
         /\ procs[p].txHash = TxHash(procs[p].attempt)
         /\ Cardinality(TxsOf(procs[p].attempt)) = 1
    /\ Denied(procs[p]) /\ procs[p].resp.message = MsgNotClubMember =>
         /\ procs[p].isValid = "true"
         /\ procs[p].txHash # <<>>
         /\ Cardinality(TxsOf(procs[p].attempt)) = 1
         /\ \E i \in 1..Len(procs[p].trace) :
              /\ procs[p].trace[i] = "Transact"
              /\ \A j \in 1..Len(procs[p].trace) :
                   /\ procs[p].trace[j] = "Transact" => j = i
                   /\ procs[p].trace[j] =
                        "CallContract checkDetailedMembership" => j > i

C7_Witness ==
  \E p \in Procs :
    /\ Denied(procs[p])
    /\ procs[p].resp.message = MsgNotClubMember
    /\ "CallContract checkDetailedMembership" \in Calls(procs[p])

\* the decimal text of Input[0] of the zkpCodes that parse
DecimalOfInput0(code) == IF code = CodeHexInput THEN <<"1", "6">> ELSE <<"9">>

RowsOf(w) == {r \in users : r.WalletAddress = w}

\* C8 as stated: after every successful login exactly one account exists for
\* the wallet and its stored zkpHash is the decimal string of Input[0] of the
\* proof just verified.
C8_StoredHashIsInput0 ==
  \A p \in Procs :
    procs[p].resp.success =>
      /\ Cardinality(RowsOf(procs[p].walletAddress)) = 1
      /\ \A r \in RowsOf(procs[p].walletAddress) :
           /\ r.Id = procs[p].resp.data.Id
           /\ r.ZkpHash = DecimalOfInput0(procs[p].req.ZkpCode)

\* C8, amended: logins run one after the other; at no time do two accounts
\* share a wallet address; after a successful login exactly one account
\* exists for the wallet, a login that found the account updated it and
\* inserted none, and the stored zkpHash is the decimal string of Input[0]
\* of the proof just verified unless the update failed, which is logged and
\* does not stop the login.
C8_OneAccountHashRefreshed ==
  /\ \A r1, r2 \in users : r1.WalletAddress = r2.WalletAddress => r1.Id = r2.Id
  /\ \A p \in Procs :
       procs[p].resp.success =>
         /\ Cardinality(RowsOf(procs[p].walletAddress)) = 1
         /\ "Update" \in Calls(procs[p]) <=> "Insert" \notin Calls(procs[p])
         /\ procs[p].resp.data.ZkpHash = DecimalOfInput0(procs[p].req.ZkpCode)
         /\ \A r \in RowsOf(procs[p].walletAddress) :
              /\ r.Id = procs[p].resp.data.Id
              /\ procs[p].storeErr = "" =>
                   r.ZkpHash = DecimalOfInput0(procs[p].req.ZkpCode)

C8_Witness ==
  \E p \in Procs :
    /\ procs[p].resp.success
    /\ "Update" \in Calls(procs[p])
    /\ procs[p].storeErr = ""
    /\ procs[p].req.ZkpCode = CodeHexInput
    /\ \E r \in users : r.Id = procs[p].resp.data.Id /\ r.ZkpHash = <<"1", "6">>

\* C9 as stated: an attempt for an account whose status is not enabled ends
\* with ACCOUNT_DISABLED, without session and without success.
C9_EndsWithAccountDisabled ==
  \A p \in Procs :
    /\ procs[p].op = "ZkpOAuth" /\ procs[p].pc = "done"
    /\ procs[p].user.Id # 0 /\ procs[p].user.Status # "enabled"
    => /\ ~procs[p].resp.success
       /\ procs[p].session = NoSession
       /\ procs[p].resp.message = "ACCOUNT_DISABLED"

\* C9, amended: no session is established and no success is answered for an
\* account whose status is not enabled, also when the proof and the
\* membership check passed; the attempt that loaded such an account ends
\* with the sentence of controller/zkp.go line 146, not with a reason code.
C9_NoSessionUnlessEnabled ==
  \A p \in Procs :
    /\ procs[p].op = "ZkpOAuth" /\ procs[p].user.Status # "enabled" =>
         /\ procs[p].session = NoSession
         /\ ~procs[p].resp.success
         /\ procs[p].pc # "session"
         /\ "session.Save" \notin Calls(procs[p])
    /\ procs[p].session # NoSession => procs[p].session.status = "enabled"
    /\ /\ procs[p].op = "ZkpOAuth" /\ procs[p].pc = "done"
       /\ procs[p].user.Id # 0 /\ procs[p].user.Status # "enabled"
       => /\ procs[p].resp.message = MsgUserBanned
          /\ procs[p].isValid = "true" /\ procs[p].isMember = "true"

C9_Witness ==
  \E p \in Procs :
    /\ Denied(procs[p])
    /\ procs[p].user.Id # 0 /\ procs[p].user.Status # "enabled"
    /\ procs[p].isValid = "true" /\ procs[p].isMember = "true"
    /\ procs[p].resp.message = MsgUserBanned

\* C10 as stated: with no account for the wallet and registration disabled
\* the attempt ends with REGISTRATION_DISABLED.
C10_EndsWithRegistrationDisabled ==
  \A p \in Procs :
    Denied(procs[p]) /\ LastCall(procs[p]) = "IsWalletAddressAlreadyTaken" =>
      procs[p].resp.message = "REGISTRATION_DISABLED"

\* the attempt denied because registration is closed
C10_Closed ==
  \A p \in Procs :
    Denied(procs[p]) /\ LastCall(procs[p]) = "IsWalletAddressAlreadyTaken" =>
      /\ procs[p].resp.message = MsgRegisterClosed
      /\ Calls(procs[p]) \cap {"GetUserIdByAffCode", "Insert"} = {}
      /\ procs[p].session = NoSession
      /\ RowsOf(procs[p].walletAddress) = {}

\* what the step after IsWalletAddressAlreadyTaken does
C10_AfterLookup ==
  \A p \in Procs :
    procs[p].pc = "lookup" /\ procs'[p] # procs[p] =>
      IF IsWalletAddressAlreadyTaken(procs[p].walletAddress)
        THEN procs'[p].pc = "fill"
      ELSE IF ~RegisterEnabled
        THEN /\ procs'[p].pc = "done"
             /\ ~procs'[p].resp.success
             /\ procs'[p].resp.message = MsgRegisterClosed
             /\ store' = store
      ELSE procs'[p].pc \in {"aff", "insert"}

\* rows are inserted only on the path entered with no account for the wallet
\* and registration enabled
C10_Create ==
  /\ \A p \in Procs :
       procs'[p].pc \in {"aff", "insert"} /\ procs[p].pc \notin {"aff", "insert"}
         => /\ procs[p].pc = "lookup"
            /\ ~IsWalletAddressAlreadyTaken(procs[p].walletAddress)
            /\ RegisterEnabled
  /\ Cardinality(users') > Cardinality(users) =>
       \E p \in Procs :
         /\ procs[p].pc = "insert" /\ procs'[p] # procs[p]
         /\ ~IsWalletAddressAlreadyTaken(procs[p].walletAddress)

\* C10, amended: with no account for the derived wallet address and
\* registration disabled the attempt ends with the sentence of
\* controller/zkp.go line 115 (no reason code), creates no account, makes
\* no inviter lookup and no insert and establishes no session; an account
\* is created only when none exists for the wallet and registration is
\* enabled.
C10_NoAccountWhenRegistrationClosed ==
  []C10_Closed /\ [][C10_AfterLookup /\ C10_Create]_vars

C10_Witness ==
  \E p \in Procs :
    /\ Denied(procs[p])
    /\ LastCall(procs[p]) = "IsWalletAddressAlreadyTaken"
    /\ procs[p].req.AffCode = "AFF"
    /\ ~RegisterEnabled
    /\ procs[p].resp.message = MsgRegisterClosed

\* C11 as stated: a failed insert of the new account ends the attempt with
\* PERSIST_ERROR, without session and without success.
C11_InsertFailureIsPersistError ==
  \A p \in Procs :
    /\ procs[p].op = "ZkpOAuth" /\ LastCall(procs[p]) = "Insert"
    /\ procs[p].storeErr # ""
    => /\ Denied(procs[p])
       /\ procs[p].session = NoSession
       /\ procs[p].resp.message = "PERSIST_ERROR"

\* C11, amended: when user.Insert of the new account fails the attempt ends
\* at once in a denial that carries the text of the store's error (no
\* reason code), with no account, no session and no success; when
\* user.Update of the loaded account fails the error changes nothing: the
\* attempt goes to the status check as after a successful update and ends
\* in success unless the account is disabled or the session cannot be saved.
C11_InsertFatalUpdateLogged ==
  \A p \in Procs :
    procs[p].op = "ZkpOAuth" /\ procs[p].storeErr # "" =>
      /\ LastCall(procs[p]) = "Insert" =>
           /\ Denied(procs[p])
           /\ procs[p].resp.message = MsgStoreError
           /\ procs[p].session = NoSession
           /\ procs[p].user.Id = 0
           /\ RowsOf(procs[p].walletAddress) = {}
      /\ LastCall(procs[p]) = "Update" =>
           IF procs[p].user.Status = "enabled"
             THEN procs[p].pc = "session"
             ELSE Denied(procs[p]) /\ procs[p].resp.message = MsgUserBanned
      /\ LastCall(procs[p]) = "session.Save" =>
           /\ "Update" \in Calls(procs[p])
           /\ procs[p].pc = "done"
           /\ \/ procs[p].resp.success /\ procs[p].session # NoSession
              \/ Denied(procs[p]) /\ procs[p].resp.message = MsgSessionSave

C11_Witness ==
  \E p \in Procs :
    /\ procs[p].resp.success
    /\ "Update" \in Calls(procs[p])
    /\ procs[p].storeErr # ""

\* C12: a login that fails for a configuration error (signing key missing,
\* contract ABI unparsable) is never answered with PROOF_INVALID, and every
\* other failure of VerifyProof is.  The attempt whose getABIs fails, and
\* every later attempt, which packs with the unparsed ABI, is answered
\* with PROOF_INVALID.
C12_ConfigErrorNotProofInvalid ==
  \A p \in Procs :
    Denied(procs[p]) =>
      /\ ZkpPrivateKey = "" \/ procs[p].verifyErr \in {"abi", "pack"} =>
           procs[p].resp.message # MsgProofInvalid
      /\ procs[p].verifyErr \notin {"", "abi", "pack", "not configured"} =>
           procs[p].resp.message = MsgProofInvalid

\* the steps of goroutine p that end within bounded time: local steps, the
\* store and session calls, and the remote calls made under the context of
\* context.WithTimeout(context.Background(), 30*time.Second), which fail
\* when the node has not answered in time
BoundedStep(p) ==
  \/ EthOnceEnter(p) \/ EthDialDone(p) \/ EthOnceDone(p)
  \/ AbiOnceEnter(p) \/ AbiParseDone(p) \/ AbiOnceDone(p)
  \/ PendingNonceAt(p) \/ SuggestGasPrice(p) \/ Simulate(p)
  \/ CallMembership(p) \/ CallHashStatus(p)
  \/ Lookup(p) \/ FillUserByWalletAddress(p) \/ UpdateUser(p)
  \/ GetUserIdByAffCode(p) \/ InsertUser(p) \/ SessionSave(p)

\* the login attempts alone
NextLogin ==
  \E p \in Procs :
    \/ ZkpOAuthBegin(p)
    \/ EthOnceEnter(p) \/ EthDialDone(p) \/ EthOnceDone(p)
    \/ AbiOnceEnter(p) \/ AbiParseDone(p) \/ AbiOnceDone(p)
    \/ PendingNonceAt(p) \/ SuggestGasPrice(p) \/ Simulate(p)
    \/ Transact(p) \/ CallMembership(p)
    \/ Lookup(p) \/ FillUserByWalletAddress(p) \/ UpdateUser(p)
    \/ GetUserIdByAffCode(p) \/ InsertUser(p) \/ SessionSave(p)
    \/ Return(p)

\* the login attempts with a chain node that may never answer: Transact is sent
\* with auth, whose Context is never set, so nothing ends it when the node
\* stays silent
SpecLive ==
  Init /\ [][NextLogin]_vars /\ \A p \in Procs : WF_vars(BoundedStep(p))

\* C15: every remote call of a login attempt is bounded by the 30 second
\* timeout, so every login attempt reaches its outcome, success or denial,
\* also when the chain node never answers.  The submission of the
\* transaction is the one remote call without the timeout: an attempt
\* whose node stays silent there never ends.
C15_EveryAttemptEnds ==
  \A p \in Procs : (procs[p].op = "ZkpOAuth") ~> (procs[p].pc = "done")

----------------------------------------------------------------------------
(* ParseZkpCode on its own *)

\* the largest number of fields of the texts handed to ParseZkpCode
MaxFields == 11

\* texts of single fields: numerals of several notations, padded, empty,
\* no numerals, 2^256 - 1 and 2^256
Fields ==
  {<<"7">>, <<"0", "x", "1", "f">>, <<"0", "1", "0">>, <<"0", "8">>,
   <<" ", "4", "2", " ">>, <<"-", "5">>, <<"+", "6">>, <<"0", "b", "1", "1">>,
   <<"1", "_", "0">>, <<"z">>, <<"0", "x">>, <<>>, <<"ZWSP", "3">>,
   <<"1", " ", "2">>, MaxUint256Text, Two256Text}

RECURSIVE Join(_)
\* the fields with commas between them
Join(fields) ==
  IF Len(fields) = 0 THEN <<>>
  ELSE IF Len(fields) = 1 THEN fields[1]
  ELSE fields[1] \o <<",">> \o Join(Tail(fields))

\* the k fields 1, 2, ... (one digit each, the digit of k modulo 10)
Plain(k) == Join([i \in 1..k |-> <<DecDigits[(i % 10) + 1]>>])

\* the nine fields 1..9 with field i replaced by f
Subst(i, f) == Join([k \in 1..FieldCount |-> IF k = i THEN f
                                              ELSE <<DecDigits[k + 1]>>])

\* s with the character ch put in after position j
InsertAt(s, j, ch) == SubSeq(s, 1, j) \o <<ch>> \o SubSeq(s, j + 1, Len(s))

Interspersed(s) == {InsertAt(s, j, ch) : j \in 0..Len(s), ch \in Invisible}

\* the texts handed to ParseZkpCode
ParseInputs ==
  {Subst(i, f) : i \in 1..FieldCount, f \in Fields}
    \cup {Plain(k) : k \in 0..MaxFields}
    \cup {Plain(k) \o <<",">> : k \in 0..(MaxFields - 1)}
    \cup Interspersed(Plain(FieldCount - 1))
    \cup Interspersed(Plain(FieldCount))
    \cup Interspersed(Plain(FieldCount + 1))
    \cup Interspersed(Subst(3, <<"z">>))
    \cup Interspersed(<<" ">> \o Subst(9, <<"0", "x", "1", "0">>) \o <<" ">>)

\* ParseZkpCode returns (payload, err): the nine scalars or nil, and the
\* error text, which for a part that does not parse ends in its index
ParseZkpCodeReturn(l, r) ==
  [l EXCEPT !.pc = "done", !.payload = r.values,
            !.ret = IF r.index >= 0 THEN r.err \o " " \o ToString(r.index)
                    ELSE r.err]

\* service.ParseZkpCode called with some text
ParseZkpCodeCall(p) ==
  /\ Start(p)
  /\ \E code \in ParseInputs :
       Set(p, ParseZkpCodeReturn([Fresh("ParseZkpCode") EXCEPT !.arg = code],
                                 ParseZkpCode(code)))
  /\ UNCHANGED <<config, RegisterEnabled, chainClient, txs, store>>

NextParse == \E p \in Procs : ParseZkpCodeCall(p) \/ Return(p)

SpecParse == Init /\ [][NextParse]_vars

\* a call of ParseZkpCode that has returned
Parsed(l) == l.op = "ParseZkpCode" /\ l.pc = "done"

\* the number of comma-separated fields of a text
FieldsIn(code) == Cardinality({i \in 1..Len(code) : code[i] = ","}) + 1

----------------------------------------------------------------------------
(* concurrent login attempts up to the return of VerifyProof *)

\* the request body of the concurrent attempts: a well-formed proof and an
\* affiliate code
LoginRequests == [json : {TRUE}, ZkpCode : {Code1to9}, AffCode : {"AFF"}]

\* ZkpOAuth in the goroutine gin starts for a request, while other requests
\* are being served; each goroutine serves one request
ZkpOAuthGo(p) ==
  /\ Go(p)
  /\ \E req \in LoginRequests :
       Set(p, ZkpOAuthEntry(Fresh("ZkpOAuth"), ZkpPrivateKey, req))
  /\ UNCHANGED <<config, RegisterEnabled, chainClient, txs, store>>

NextCommit ==
  \E p \in Procs :
    \/ ZkpOAuthGo(p)
    \/ EthOnceEnter(p) \/ EthDialDone(p) \/ EthOnceDone(p)
    \/ AbiOnceEnter(p) \/ AbiParseDone(p) \/ AbiOnceDone(p)
    \/ PendingNonceAt(p) \/ SuggestGasPrice(p) \/ Simulate(p) \/ Transact(p)

\* the server configured with a signing key and open for registration
InitConfigured == Init /\ ZkpPrivateKey = "0xKEY" /\ RegisterEnabled

SpecCommit == InitConfigured /\ [][NextCommit]_vars

----------------------------------------------------------------------------
(* concurrent login attempts, whole *)

NextLogins ==
  \E p \in Procs :
    \/ ZkpOAuthGo(p)
    \/ EthOnceEnter(p) \/ EthDialDone(p) \/ EthOnceDone(p)
    \/ AbiOnceEnter(p) \/ AbiParseDone(p) \/ AbiOnceDone(p)
    \/ PendingNonceAt(p) \/ SuggestGasPrice(p) \/ Simulate(p) \/ Transact(p)
    \/ CallMembership(p)
    \/ Lookup(p) \/ FillUserByWalletAddress(p) \/ UpdateUser(p)
    \/ GetUserIdByAffCode(p) \/ InsertUser(p) \/ SessionSave(p)

SpecLogins == InitConfigured /\ [][NextLogins]_vars

\* a caller to which getEthClient has returned
PastGetEthClient(l) ==
  \/ l.frame # "none" /\ l.pc \notin {"getEthClient", "dialing"}
  \/ l.pc = "done" /\ l.status.err # "none"

\* a caller to which getABIs has returned
PastGetABIs(l) ==
  \/ l.frame # "none" /\ l.pc \notin {"getEthClient", "dialing", "getABIs",
                                      "parsing"}
  \/ l.pc = "done" /\ l.status.err \notin {"none", "connect"}

\* C13: under any interleaving of concurrent callers ethclient.Dial runs at
\* most once and the ABI parsing function runs at most once, at most one
\* goroutine is inside either, and getEthClient and getABIs return to no
\* caller before the one initialisation is complete.
C13_InitialisedOnce ==
  /\ dials <= 1 /\ parses <= 1
  /\ Cardinality({p \in Procs : procs[p].pc = "dialing"}) =
       (IF ethClientOnce = "running" THEN 1 ELSE 0)
  /\ Cardinality({p \in Procs : procs[p].pc = "parsing"}) =
       (IF abiOnce = "running" THEN 1 ELSE 0)
  /\ ethClientOnce = "done" <=> dials = 1
  /\ abiOnce = "done" <=> parses = 1
  /\ \A p \in Procs :
       /\ PastGetEthClient(procs[p]) => ethClientOnce = "done" /\ dials = 1
       /\ PastGetABIs(procs[p]) => abiOnce = "done" /\ parses = 1

C13_Witness ==
  \E p, q \in Procs :
    /\ procs[p].pc = "dialing"
    /\ procs[q].pc = "getEthClient"
    /\ ethClientOnce = "running"

\* C14: every caller of getABIs observes the result of the one
\* initialisation: once the parse has failed, getABIs returns that error to
\* every later caller, never a nil error.  getABIs returns its own local
\* err, which only the goroutine that ran the parse has set: a later caller
\* gets nil and goes on with the unparsed ABI.
C14_CachedErrorToEveryCaller ==
  \A p \in Procs :
    /\ abiOnce = "done" /\ ~membershipABI
    /\ procs[p].op \in {"IsClubMember", "IsZkpValid"}
    /\ PastGetABIs(procs[p])
    => procs[p].pc = "done" /\ procs[p].status.err = "abi"

\* C16: for every text whose number of comma-separated fields is not 9
\* ParseZkpCode returns the error about the field count and no payload, and
\* does not fault.
C16_WrongFieldCountIsFormatError ==
  \A p \in Procs :
    Parsed(procs[p]) /\ FieldsIn(procs[p].arg) # 9 =>
      /\ procs[p].ret = "expected 9 comma-separated values"
      /\ procs[p].payload = <<>>

C16_Witness ==
  \E p \in Procs :
    /\ Parsed(procs[p])
    /\ FieldsIn(procs[p].arg) = 10
    /\ \E i \in 1..Len(procs[p].arg) : procs[p].arg[i] \in Invisible
    /\ procs[p].ret = "expected 9 comma-separated values"

\* fields that are decimal numerals or 0x-prefixed hexadecimal numerals
\* (one of them padded with spaces)
NumeralFields ==
  {<<"7">>, <<"0", "x", "1", "f">>, <<"0", "1", "0">>, <<"0", "8">>,
   <<" ", "4", "2", " ">>}

\* the number such a field denotes, read as decimal unless it starts with
\* 0x: 7, 31, 10, 8, 42
NumeralValue(f) ==
  CASE f = <<"7">> -> <<7>>
    [] f = <<"0", "x", "1", "f">> -> <<1, 3>>
    [] f = <<"0", "1", "0">> -> <<0, 1>>
    [] f = <<"0", "8">> -> <<8>>
    [] f = <<" ", "4", "2", " ">> -> <<2, 4>>

\* the scalars of the fields 1..9 with field i replaced by f
ScalarsOf(i, f) ==
  [k \in 1..9 |-> IF k = i THEN BigInt(FALSE, NumeralValue(f))
                  ELSE BigInt(FALSE, <<k>>)]

\* C17: for nine fields that are decimal or 0x-hexadecimal numerals
\* ParseZkpCode succeeds and its nine scalars, in the order A[0], A[1],
\* B[0][0], B[0][1], B[1][0], B[1][1], C[0], C[1], Input[0], are the numbers
\* the fields denote, a field without 0x being read as decimal, leading
\* zeros included.
C17_ScalarsAreFieldValues ==
  \A p \in Procs : \A i \in 1..9 : \A f \in NumeralFields :
    Parsed(procs[p]) /\ procs[p].arg = Subst(i, f) =>
      procs[p].ret = "" /\ procs[p].payload = ScalarsOf(i, f)

\* the fields that are no decimal and no 0x-hexadecimal numeral of a
\* non-negative integer
NotNumeralFields ==
  {<<"-", "5">>, <<"+", "6">>, <<"0", "b", "1", "1">>, <<"1", "_", "0">>,
   <<"z">>, <<"0", "x">>, <<>>, <<"1", " ", "2">>}

\* C18: every scalar of a returned payload is non-negative, and a field that
\* is no decimal and no 0x-hexadecimal numeral of a non-negative integer makes
\* the parse fail with the error that names the index of the field.
C18_OnlyNonNegativeNumerals ==
  \A p \in Procs :
    Parsed(procs[p]) =>
      /\ \A k \in 1..Len(procs[p].payload) : ~procs[p].payload[k].neg
      /\ \A i \in 1..9 : \A f \in NotNumeralFields :
           procs[p].arg = Subst(i, f) =>
             /\ procs[p].payload = <<>>
             /\ procs[p].ret = "failed to parse value at index "
                                 \o ToString(i - 1)

\* a text with a zero-width or byte-order-mark character in it
HasInvisible(code) ==
  \E i \in 1..Len(code) : code[i] \in {"ZWSP", "ZWNJ", "ZWJ", "BOM"}

IsPrinted(ch) == ch \notin {"ZWSP", "ZWNJ", "ZWJ", "BOM"}

\* what ParseZkpCode returns for code without those characters
ResultOfStripped(l) ==
  ParseZkpCodeReturn(l, ParseZkpCode(SelectSeq(l.arg, IsPrinted)))

\* C19 as stated: for a text with zero-width or byte-order-mark characters in
\* it ParseZkpCode succeeds if and only if what is left without them has
\* exactly 9 comma-separated fields.
C19_SucceedsIffNineFields ==
  \A p \in Procs :
    Parsed(procs[p]) /\ HasInvisible(procs[p].arg) =>
      (procs[p].ret = "" <=> FieldsIn(procs[p].arg) = 9)

\* C19 amended: for a text with zero-width or byte-order-mark characters in
\* it ParseZkpCode returns what it returns for the text without them; it
\* fails with the field count error if and only if what is left has not
\* exactly 9 comma-separated fields, so it succeeds only with 9 fields, and
\* with the nine fields 1..9 it returns the scalars 1..9.
C19_InvisibleCharactersTransparent ==
  \A p \in Procs :
    Parsed(procs[p]) /\ HasInvisible(procs[p].arg) =>
      /\ procs[p] = ResultOfStripped(procs[p])
      /\ procs[p].ret = "expected 9 comma-separated values"
           <=> FieldsIn(procs[p].arg) # 9
      /\ procs[p].ret = "" => FieldsIn(procs[p].arg) = 9
      /\ procs[p].arg \in Interspersed(Plain(9)) =>
           /\ procs[p].ret = ""
           /\ procs[p].payload = [k \in 1..9 |-> BigInt(FALSE, <<k>>)]

C19_Witness ==
  \E p \in Procs :
    /\ Parsed(procs[p])
    /\ procs[p].arg = InsertAt(Plain(9), 4, "BOM")
    /\ procs[p].ret = ""
    /\ procs[p].payload[9] = BigInt(FALSE, <<9>>)

\* the step of a login attempt a call belongs to: 4 VerifyProof,
\* 5 IsClubMember, 6 account lookup and create/update, 8 session
StepOf(call) ==
  CASE call \in {"Dial", "ParseABI", "PendingNonceAt", "SuggestGasPrice",
                 "CallContract verifyProof", "Transact"} -> 4
    [] call = "CallContract checkDetailedMembership" -> 5
    [] call \in {"IsWalletAddressAlreadyTaken", "FillUserByWalletAddress",
                 "Update", "GetUserIdByAffCode", "Insert"} -> 6
    [] call = "session.Save" -> 8
    [] OTHER -> 0

\* the step that produces a denial: 1 signing key, 2 binding, 3 ParseZkpCode,
\* 4 VerifyProof, 5 IsClubMember, 6 account lookup and create/update,
\* 7 status check, 8 session
DenialStep(msg) ==
  CASE msg = MsgNotConfigured -> 1
    [] msg = MsgInvalidPayload -> 2
    [] msg = MsgInvalidZkpCode -> 3
    [] msg = MsgProofInvalid -> 4
    [] msg = MsgNotClubMember -> 5
    [] msg \in {MsgRegisterClosed, MsgUserDeleted, MsgStoreError} -> 6
    [] msg = MsgUserBanned -> 7
    [] msg = MsgSessionSave -> 8
    [] OTHER -> 0

\* the steps before step n succeeded in attempt l
StepsBefore(l, n) ==
  /\ n > 1 => ZkpPrivateKey # ""
  /\ n > 2 => l.req # NoRequest /\ ShouldBindJSON(l.req)
  /\ n > 3 => l.payload # <<>> /\ l.req.ZkpCode \in {Code1to9, CodeHexInput}
  /\ n > 4 => l.verifyErr = "" /\ l.txHash # <<>> /\ l.walletAddress # ""
  /\ n > 5 => l.isMember = "true"
  /\ n > 6 => l.user.Id # 0
  /\ n > 7 => l.user.Status = "enabled"

\* step n failed in attempt l, and no later step left a result
StepFailed(l, n) ==
  /\ n = 1 => ZkpPrivateKey = ""
  /\ n <= 2 => l.req = NoRequest
  /\ n = 3 => l.req.ZkpCode \in {CodeThreeFields, CodeBadField}
  /\ n <= 3 => l.payload = <<>> /\ l.trace = <<>>
  /\ n = 4 => l.verifyErr # ""
  /\ n <= 4 => l.isMember = "none"
  /\ n = 5 => l.isMember = "false"
  /\ n <= 5 => l.user = ZeroUser
  /\ n = 7 => l.user.Status # "enabled"
  /\ n <= 7 => "session.Save" \notin Calls(l)
  /\ l.session = NoSession

C20_InOrder ==
  \A p \in Procs :
    procs[p].op = "ZkpOAuth" =>
      /\ \A i \in 1..(Len(procs[p].trace) - 1) :
           StepOf(procs[p].trace[i]) <= StepOf(procs[p].trace[i + 1])
      /\ procs[p].trace # <<>> =>
           /\ StepOf(procs[p].trace[1]) >= 4
           /\ StepsBefore(procs[p], StepOf(LastCall(procs[p])))
      /\ procs[p].pc # "done" => StepsBefore(procs[p], 4)
      /\ Denied(procs[p]) =>
           /\ DenialStep(procs[p].resp.message) >= 1
           /\ StepsBefore(procs[p], DenialStep(procs[p].resp.message))
           /\ StepFailed(procs[p], DenialStep(procs[p].resp.message))
           /\ \A i \in 1..Len(procs[p].trace) :
                StepOf(procs[p].trace[i])
                  <= DenialStep(procs[p].resp.message)

\* an attempt that has answered makes no further call and submits nothing
C20_NothingAfterAnswer ==
  \A p \in Procs :
    procs[p].pc = "done" =>
      /\ procs'[p] = procs[p] \/ procs'[p] = Idle
      /\ \A i \in 1..Len(txs') :
           txs'[i].attempt = procs[p].attempt => i <= Len(txs)

\* C20: within one login attempt the steps run in the order signing-key
\* check, request binding, ParseZkpCode, VerifyProof, IsClubMember, account
\* lookup and create/update, status check, session; the denial is that of the
\* first step that fails, every step before it having succeeded, and after a
\* denial the attempt performs no further step: no chain call and no account
\* store operation.
C20_StepsInOrderFirstFailureDenies ==
  []C20_InOrder /\ [][C20_NothingAfterAnswer]_vars

C20_Witness ==
  \E p \in Procs :
    /\ Denied(procs[p])
    /\ procs[p].resp.message = MsgUserBanned
    /\ LastCall(procs[p]) = "Update"
    /\ "Transact" \in Calls(procs[p])
    /\ "CallContract checkDetailedMembership" \in Calls(procs[p])

\* the requests of the commit phase that VerifyProof sends before Transact
CommitRequests == {"PendingNonceAt", "SuggestGasPrice"}

\* C21: in VerifyProof the pending nonce and the gas price are requested only
\* after the simulation has reported the proof valid: an attempt whose
\* simulation fails or reports not valid has requested neither, and the
\* attempt fails for the nonce or the gas price only after a valid simulation.
C21_CommitRequestsAfterValidSimulation ==
  \A p \in Procs :
    procs[p].op = "ZkpOAuth" =>
      /\ \A i \in 1..Len(procs[p].trace) :
           procs[p].trace[i] \in CommitRequests =>
             /\ procs[p].isValid = "true"
             /\ \E j \in 1..(i - 1) :
                  procs[p].trace[j] = "CallContract verifyProof"
      /\ procs[p].isValid \in {"false", "error"} =>
           Calls(procs[p]) \cap CommitRequests = {}
      /\ procs[p].verifyErr \in {"nonce", "gas price"} =>
           procs[p].isValid = "true"

\* the single initialisation has run and failed: the dial, or the parsing of
\* one of the two ABIs
DialFailed == ethClientOnce = "done" /\ ethClientErr # ""

ParseFailed == abiOnce = "done" /\ ~(zkpABI /\ membershipABI)

\* C22: after the initialisation has failed no second dial and no second
\* parse is made, and no VerifyProof, GetHashStatus or CheckClubMembership
\* call succeeds: every login attempt is denied, and IsZkpValid and
\* IsClubMember return false for every non-empty argument.
C22_InitFailureIsPermanent ==
  /\ dials <= 1 /\ parses <= 1
  /\ DialFailed \/ ParseFailed =>
       \A p \in Procs :
         procs[p].pc = "done" =>
           /\ procs[p].op = "ZkpOAuth" =>
                /\ ~procs[p].resp.success
                /\ procs[p].payload # <<>> => procs[p].verifyErr # ""
           /\ procs[p].op = "IsZkpValid" /\ procs[p].arg # <<>> =>
                procs[p].ret = "false"
           /\ procs[p].op = "IsClubMember" /\ procs[p].walletAddress # "" =>
                procs[p].ret = "false"

\* C23: every payload ParseZkpCode returns consists of exactly 9 scalars,
\* each non-negative and less than 2^256, so that the decimal text of
\* Input[0], the hash identifier kept on the account, denotes a 256-bit
\* value.
C23_ScalarsAreUint256 ==
  \A p \in Procs :
    Parsed(procs[p]) /\ procs[p].payload # <<>> =>
      /\ Len(procs[p].payload) = 9
      /\ \A k \in 1..Len(procs[p].payload) :
           ~procs[p].payload[k].neg /\ FitsBytes32(procs[p].payload[k])
      /\ BigString(PayloadInput0(procs[p].payload))[1] # "-"
      /\ FitsBytes32(SetString(BigString(PayloadInput0(procs[p].payload)),
                               10).val)

\* identifiers that are no decimal numeral of a number in [0, 2^256): a
\* hexadecimal numeral, a negative number, 2^256
BadHashIds == {<<"0", "x", "1", "0">>, <<"-", "5">>, Two256Text}

\* C24: GetHashStatus turns a decimal identifier in [0, 2^256) into 32 bytes
\* and goes on to the remote call; for an identifier that is not decimal, is
\* negative or is 2^256 or more it returns an error, which IsZkpValid answers
\* with false, without a remote call and without faulting.
C24_BadHashIdIsStatusError ==
  \A p \in Procs :
    procs[p].op = "IsZkpValid" =>
      /\ procs[p].ret # "panic"
      /\ procs[p].arg \in BadHashIds =>
           /\ procs[p].pc # "call"
           /\ "CallContract getHashStatus" \notin Calls(procs[p])
           /\ procs[p].pc = "done" => procs[p].ret = "false"

\* the steps of VerifyProof between the reading of the nonce and Transact
HoldsNonce(l) == l.pc \in {"gasPrice", "simulate", "transact"}

\* an attempt keeps the nonce it read, whatever the others submit, and
\* Transact submits with it
C25_KeepsNonce ==
  \A p \in Procs :
    /\ procs[p].pc = "nonce" /\ HoldsNonce(procs'[p]) =>
         procs'[p].nonce = PendingNonce
    /\ HoldsNonce(procs[p]) /\ HoldsNonce(procs'[p]) =>
         procs'[p].nonce = procs[p].nonce
    /\ procs[p].pc = "transact" /\ procs'[p] # procs[p] =>
         \/ txs' = txs /\ procs'[p].verifyErr = "send failed"
         \/ txs' = Append(txs, [attempt |-> procs[p].attempt,
                                nonce |-> procs[p].nonce])

\* C25: the commit phase is not serialised per signing key: VerifyProof
\* submits with the nonce it read at PendingNonceAt whatever other attempts
\* have read or submitted since, so that two concurrent attempts can read
\* the same pending nonce and both submit a transaction with it.
C25_SubmitsWithTheNonceRead == [][C25_KeepsNonce]_vars

\* two transactions of two attempts carry the same nonce
C25_Witness ==
  \E i, j \in 1..Len(txs) :
    /\ i < j
    /\ txs[i].attempt # txs[j].attempt
    /\ txs[i].nonce = txs[j].nonce

DeniedExistingDisabled(l) ==
  /\ Denied(l)
  /\ "FillUserByWalletAddress" \in Calls(l)
  /\ l.user.Id # 0 /\ l.user.Status # "enabled"

\* the rows of the account that attempt l loaded
RowsOfUser(l) == {r \in users : r.Id = l.user.Id}

\* C27 as stated: a login attempt for an existing disabled account that
\* passes proof verification and membership ends in ACCOUNT_DISABLED and
\* leaves the stored zkpHash of the account equal to the hash identifier of
\* the new proof.
C27_DisabledDeniedHashStored ==
  \A p \in Procs :
    DeniedExistingDisabled(procs[p]) =>
      /\ procs[p].resp.message = "ACCOUNT_DISABLED"
      /\ \A r \in RowsOfUser(procs[p]) :
           r.ZkpHash = DecimalOfInput0(procs[p].req.ZkpCode)

C27_UpdateBeforeStatusCheck ==
  \A p \in Procs :
    DeniedExistingDisabled(procs[p]) =>
      /\ procs[p].resp.message = MsgUserBanned
      /\ procs[p].verifyErr = "" /\ procs[p].isMember = "true"
      /\ LastCall(procs[p]) = "Update"
      /\ RowsOfUser(procs[p]) # {}
      /\ procs[p].storeErr = "" =>
           \A r \in RowsOfUser(procs[p]) :
             r.ZkpHash = DecimalOfInput0(procs[p].req.ZkpCode)

\* the step user.Update of an attempt for an account that is not enabled
\* ends the attempt with a denial, and writes the store unless it fails
C27_UpdateStep ==
  \A p \in Procs :
    /\ procs[p].pc = "update" /\ procs'[p] # procs[p]
    /\ procs[p].user.Status # "enabled"
    => /\ Denied(procs'[p])
       /\ users' = IF procs'[p].storeErr = "" THEN Update(procs[p].user)
                   ELSE users

\* C27, amended: for an existing account the zkpHash is overwritten and
\* persisted before the status check: an attempt for an existing account
\* that is not enabled, having passed proof verification and membership, is
\* denied with the sentence of controller/zkp.go line 146 after user.Update
\* was called, and unless that update failed the stored zkpHash of the
\* account is the hash identifier of the new proof: the store is written by
\* an attempt that is denied.
C27_DeniedAttemptWritesHash ==
  []C27_UpdateBeforeStatusCheck /\ [][C27_UpdateStep]_vars

C27_Witness ==
  \E p \in Procs :
    /\ DeniedExistingDisabled(procs[p])
    /\ procs[p].storeErr = ""
    /\ procs[p].req.ZkpCode = CodeHexInput
    /\ \E r \in RowsOfUser(procs[p]) :
         r.ZkpHash = <<"1", "6">> /\ r.Status = "disabled"

\* an attempt that is in IsClubMember or past it
InOrPastIsClubMember(l) ==
  l.op = "ZkpOAuth" /\ (l.frame = "cm" \/ l.isMember # "none")

C28_AddressFromValidSimulation ==
  \A p \in Procs :
    /\ InOrPastIsClubMember(procs[p]) =>
         /\ procs[p].walletAddress \in Wallets
         /\ procs[p].isValid = "true" /\ procs[p].verifyErr = ""
         /\ "CallContract verifyProof" \in Calls(procs[p])
    /\ procs[p].op = "ZkpOAuth" /\ procs[p].isMember = "true" =>
         /\ "CallContract checkDetailedMembership" \in Calls(procs[p])
         /\ procs[p].walletAddress # ""
    /\ procs[p].op = "ZkpOAuth" /\ procs[p].walletAddress # "" =>
         procs[p].isValid = "true"

\* the address of an attempt is set by the simulation and stays
C28_AddressStep ==
  \A p \in Procs :
    procs[p].op = "ZkpOAuth" /\ procs'[p].op = "ZkpOAuth" =>
      /\ procs[p].walletAddress # "" =>
           procs'[p].walletAddress = procs[p].walletAddress
      /\ procs[p].walletAddress = "" /\ procs'[p].walletAddress # "" =>
           procs[p].pc = "simulate" /\ procs'[p].isValid = "true"
      /\ procs[p].isMember = "none" /\ procs'[p].isMember = "true" =>
           procs[p].pc = "call" /\ procs[p].frame = "cm"

\* C28: in every login attempt the wallet address handed to IsClubMember is
\* the non-empty address decoded from a simulation that reported
\* isValid = true, so IsClubMember never answers true for an empty address
\* in ZkpOAuth: an attempt passes the membership gate only by a membership
\* query that succeeded.
C28_GatePassedOnlyByQuery ==
  []C28_AddressFromValidSimulation /\ [][C28_AddressStep]_vars

C28_Witness ==
  \E p \in Procs :
    /\ procs[p].op = "ZkpOAuth" /\ procs[p].isMember = "true"
    /\ procs[p].walletAddress = Hex("addrB")
    /\ LastCall(procs[p]) = "CallContract checkDetailedMembership"

\* VerifyProof has returned to ZkpOAuth
VerifyProofReturned(l) ==
  l.op = "ZkpOAuth" /\ l.payload # <<>> /\ l.frame # "vp"

C29_ReturnValues ==
  \A p \in Procs :
    VerifyProofReturned(procs[p]) =>
      /\ procs[p].walletAddress # "" <=> procs[p].isValid = "true"
      /\ procs[p].walletAddress # "" => procs[p].walletAddress \in Wallets
      /\ procs[p].verifyErr = "" =>
           /\ procs[p].walletAddress # "" /\ procs[p].txHash # <<>>
           /\ TxsOf(procs[p].attempt) # {}
      /\ procs[p].verifyErr = "send failed" =>
           /\ procs[p].isValid = "true"
           /\ procs[p].walletAddress # "" /\ procs[p].txHash = <<>>
           /\ TxsOf(procs[p].attempt) = {}
      /\ procs[p].verifyErr \notin {"", "send failed"} =>
           /\ procs[p].walletAddress = "" /\ procs[p].txHash = <<>>
           /\ procs[p].isValid # "true"

\* Transact returns the address the simulation gave
C29_TransactStep ==
  \A p \in Procs :
    procs[p].pc = "transact" /\ procs'[p] # procs[p] =>
      /\ procs[p].walletAddress \in Wallets
      /\ procs'[p].walletAddress = procs[p].walletAddress
      /\ VerifyProofReturned(procs'[p])

\* C29: VerifyProof returns a non-empty walletAddress exactly when its
\* simulation reported the proof valid, and it is the address of the
\* simulation, not one taken from the transaction: on success walletAddress
\* and txHash are non-empty and the error is nil; when the submission fails
\* after a valid simulation walletAddress is non-empty, txHash is empty and
\* the error is not nil; on every other failure both are empty.
C29_AddressExactlyWhenValid ==
  []C29_ReturnValues /\ [][C29_TransactStep]_vars

C29_Witness ==
  \E p \in Procs :
    /\ VerifyProofReturned(procs[p])
    /\ procs[p].verifyErr = "send failed"
    /\ procs[p].walletAddress = Hex("addrA")
    /\ procs[p].txHash = <<>>
    /\ Denied(procs[p])

====
